---- MODULE Spec2Model ----
(***************************************************************************)
(* ShareBox: the codec (src/lib/encryption.ts), the in-process share       *)
(* stores (encryption.ts, persistent-store.ts, temp-cache.ts), the         *)
(* Supabase adapter and the /api/upload, /api/share and /api/download      *)
(* route handlers.                                                         *)
(*                                                                         *)
(* Strings are sequences of character codes.  Codes 0..63 are the base64   *)
(* alphabet, PAD is '=', and the remaining codes are the punctuation that  *)
(* JSON.stringify emits and the OpenSSL "Salted__" header that CryptoJS    *)
(* puts in front of every passphrase ciphertext.                           *)
(***************************************************************************)
EXTENDS Integers, Sequences, FiniteSets, TLC

VARIABLES
    \* ---- codec harness: one encryptFileBuffer / decryptFileBuffer call
    buffer,      \* the Buffer handed to encryptFileBuffer
    encrypted,   \* the string encryptFileBuffer resolved with
    decrypted,   \* what decryptFileBuffer resolved with
    cpc,         \* position of the harness
    \* ---- deployment and clock
    now,                 \* Date.now(), in minutes
    supabaseConfigured,  \* isSupabaseConfigured(): fixed by the environment
    downloadRoute,       \* which version of the /api/download handler is deployed
    \* ---- in-process stores (module-level Maps of one server instance)
    inMemoryDatabase,    \* encryption.ts: fileId -> FileShareData
    temporaryFileStore,  \* encryption.ts: fileId -> {data, timestamp}
    fileStore,           \* persistent-store.ts: fileId -> StoredFile
    tempCache,           \* temp-cache.ts: fileId -> CachedFile
    \* ---- Supabase
    shares,              \* table shares: access_token -> row
    storage,             \* bucket uploads: object key -> content
    \* ---- control state
    bg,                  \* background propagation chains started by uploads
    req,                 \* GET request handlers, one slot per request
    writes,              \* number of uploads and store writes handled so far
    \* ---- history
    served,              \* fileId -> payload responses sent for it since its last upload
    deleted,             \* fileIds whose last lifecycle event is a delete that returned true
    \* ---- /api/upload-chunk
    uploadSessions,      \* upload-chunk/route.ts: fileId -> the registered session object
    sessionObjects,      \* the session objects created so far, registered or not
    chunkReq,            \* POST /api/upload-chunk handlers, one slot per request
    chunkCalls,          \* number of chunk requests accepted so far
    swept,               \* fileIds whose session the hourly cleanup has discarded
    \* ---- the browser
    client,              \* one uploadFileInChunks call: its loop and what it returned
    \* ---- the proxy in front of every route
    rateLimitStore,      \* key -> { count, resetTime }
    passed               \* key -> requests the limiter let through in the key's window

codecVars == <<buffer, encrypted, decrypted, cpc>>
localVars == <<inMemoryDatabase, temporaryFileStore, fileStore, tempCache>>
supaVars == <<shares, storage>>
deployVars == <<supabaseConfigured, downloadRoute>>
proxyVars == <<rateLimitStore, passed>>
chunkVars == <<uploadSessions, sessionObjects, chunkReq, chunkCalls, swept, client>>
shareVars == <<now, deployVars, proxyVars, localVars, supaVars, bg, writes, req, served, deleted>>

vars == <<codecVars, shareVars, chunkVars>>

(***************************************************************************)
(* Bounds                                                                  *)
(***************************************************************************)
\* one model "MB": the number of bytes that stands for 1024 * 1024
MB == 1
\* longest Buffer handed to the codec harness
MaxLen == 12
\* number of distinct salts CryptoJS may draw
NumSalts == 2

ByteVals == {10, 255}
Salts == 1..NumSalts

(***************************************************************************)
(* Codec: src/lib/encryption.ts                                            *)
(***************************************************************************)
PAD == 64
LBRACKET == 91
RBRACKET == 93
QUOTE == 34
COMMA == 44
SALTED == 20
ENCRYPTION_KEY == 7

CHUNK_SIZE == 5 * MB
CHUNK_THRESHOLD == 10 * MB

Min(a, b) == IF a < b THEN a ELSE b

RECURSIVE Base64Encode(_)
\* Buffer.toString('base64'): 3 bytes -> 4 symbols, '=' padding at the end
Base64Encode(b) ==
    IF Len(b) = 0 THEN <<>>
    ELSE IF Len(b) = 1 THEN
        <<b[1] \div 4, (b[1] % 4) * 16, PAD, PAD>>
    ELSE IF Len(b) = 2 THEN
        <<b[1] \div 4, (b[1] % 4) * 16 + (b[2] \div 16), (b[2] % 16) * 4, PAD>>
    ELSE
        <<b[1] \div 4, (b[1] % 4) * 16 + (b[2] \div 16),
          (b[2] % 16) * 4 + (b[3] \div 64), b[3] % 64>>
        \o Base64Encode(SubSeq(b, 4, Len(b)))

RECURSIVE TakeUntilPad(_)
\* the base64 decoder stops at the first '='
TakeUntilPad(s) ==
    IF Len(s) = 0 \/ s[1] = PAD THEN <<>>
    ELSE <<s[1]>> \o TakeUntilPad(Tail(s))

RECURSIVE DecodeSextets(_)
DecodeSextets(s) ==
    IF Len(s) < 2 THEN <<>>
    ELSE IF Len(s) = 2 THEN
        <<s[1] * 4 + (s[2] \div 16)>>
    ELSE IF Len(s) = 3 THEN
        <<s[1] * 4 + (s[2] \div 16), (s[2] % 16) * 16 + (s[3] \div 4)>>
    ELSE
        <<s[1] * 4 + (s[2] \div 16), (s[2] % 16) * 16 + (s[3] \div 4),
          (s[3] % 4) * 64 + s[4]>>
        \o DecodeSextets(SubSeq(s, 5, Len(s)))

\* Buffer.from(str, 'base64')
Base64Decode(s) == DecodeSextets(TakeUntilPad(s))

\* the keyed, salted symbol substitution standing for AES-CBC + base64
Cipher(x, key, salt) == (x + key + salt) % 65
Decipher(y, key, salt) == (y + 2 * 65 - key - salt) % 65

\* encryptData: CryptoJS.AES.encrypt(data, ENCRYPTION_KEY).toString()
encryptData(data, salt) ==
    <<SALTED, salt>> \o [i \in 1..Len(data) |-> Cipher(data[i], ENCRYPTION_KEY, salt)]

\* decryptData: CryptoJS.AES.decrypt(encryptedData, ENCRYPTION_KEY).toString(Utf8)
decryptData(encryptedData) ==
    IF Len(encryptedData) >= 2 /\ encryptedData[1] = SALTED
    THEN [i \in 1..(Len(encryptedData) - 2) |->
             Decipher(encryptedData[i + 2], ENCRYPTION_KEY, encryptedData[2])]
    ELSE <<>>

RECURSIVE JoinQuoted(_)
JoinQuoted(strs) ==
    IF Len(strs) = 0 THEN <<>>
    ELSE <<QUOTE>> \o strs[1] \o <<QUOTE>>
         \o (IF Len(strs) > 1 THEN <<COMMA>> ELSE <<>>)
         \o JoinQuoted(Tail(strs))

\* JSON.stringify(string[])
JSONstringify(strs) == <<LBRACKET>> \o JoinQuoted(strs) \o <<RBRACKET>>

RECURSIVE TakeUntilQuote(_)
TakeUntilQuote(s) ==
    IF Len(s) = 0 \/ s[1] = QUOTE THEN <<>>
    ELSE <<s[1]>> \o TakeUntilQuote(Tail(s))

RECURSIVE ParseElements(_)
\* the elements of a JSON array of strings, after the opening bracket;
\* ok is FALSE where JSON.parse throws a SyntaxError
ParseElements(s) ==
    IF Len(s) = 0 \/ s[1] # QUOTE THEN [ok |-> FALSE, value |-> <<>>]
    ELSE
        LET str  == TakeUntilQuote(Tail(s))
            rest == SubSeq(s, Len(str) + 2, Len(s))
        IN  IF Len(rest) < 2 \/ rest[1] # QUOTE THEN [ok |-> FALSE, value |-> <<>>]
            ELSE IF rest[2] = RBRACKET THEN
                [ok |-> Len(rest) = 2, value |-> <<str>>]
            ELSE IF rest[2] = COMMA THEN
                LET more == ParseElements(SubSeq(rest, 3, Len(rest)))
                IN  [ok |-> more.ok, value |-> <<str>> \o more.value]
            ELSE [ok |-> FALSE, value |-> <<>>]

\* JSON.parse of a string that starts with '['
JSONparse(s) ==
    IF Len(s) >= 2 /\ s[1] = LBRACKET /\ s[2] = RBRACKET
    THEN [ok |-> Len(s) = 2, value |-> <<>>]
    ELSE IF Len(s) >= 1 /\ s[1] = LBRACKET
    THEN ParseElements(Tail(s))
    ELSE [ok |-> FALSE, value |-> <<>>]

\* String.prototype.startsWith for a one-character prefix
startsWith(s, c) == Len(s) >= 1 /\ s[1] = c

\* number of chunks the loop of encryptFileBuffer produces
NumChunks(len) == (len + CHUNK_SIZE - 1) \div CHUNK_SIZE

RECURSIVE EncryptChunksSkipping(_, _, _)
EncryptChunksSkipping(buf, i, salts) ==
    IF i >= Len(buf) THEN <<>>
    ELSE
        LET end   == Min(i + CHUNK_SIZE, Len(buf))
            chunk == SubSeq(buf, i + 1, end)
        IN  <<encryptData(Base64Encode(chunk), salts[(i \div CHUNK_SIZE) + 1])>>
            \o EncryptChunksSkipping(buf, i + CHUNK_SIZE + 1, salts)

RECURSIVE EncryptChunks(_, _, _)
\* the for loop of encryptFileBuffer from offset i on
EncryptChunks(buf, i, salts) ==
    IF i >= Len(buf) THEN <<>>
    ELSE
        LET end   == Min(i + CHUNK_SIZE, Len(buf))
            chunk == SubSeq(buf, i + 1, end)
        IN  <<encryptData(Base64Encode(chunk), salts[(i \div CHUNK_SIZE) + 1])>>
            \o EncryptChunks(buf, i + CHUNK_SIZE, salts)

\* the branch of encryptFileBuffer for small files
encryptWhole(buf, salt) == encryptData(Base64Encode(buf), salt)

\* encryptFileBuffer; salts[k] is the salt CryptoJS draws for the k-th call
encryptFileBuffer(buf, salts) ==
    IF Len(buf) > CHUNK_THRESHOLD
    THEN JSONstringify(EncryptChunks(buf, 0, salts))
    ELSE encryptWhole(buf, salts[1])

\* the salts CryptoJS may draw during one encryptFileBuffer(buf): one per
\* encryptData call
SaltsFor(buf, salts) ==
    [1..(IF Len(buf) > CHUNK_THRESHOLD THEN NumChunks(Len(buf)) ELSE 1) -> salts]

RECURSIVE DecryptChunks(_)
\* the for loop of decryptFileBuffer followed by Buffer.concat
DecryptChunks(chunks) ==
    IF Len(chunks) = 0 THEN <<>>
    ELSE Base64Decode(decryptData(chunks[1])) \o DecryptChunks(Tail(chunks))

\* the branch of decryptFileBuffer for small files
decryptWhole(encryptedData) == Base64Decode(decryptData(encryptedData))

decryptFileBufferUnpadded(encryptedData) ==
    IF startsWith(encryptedData, LBRACKET)
    THEN LET parsed == JSONparse(encryptedData)
         IN  IF parsed.ok
             THEN [ok |-> TRUE, data |-> DecryptChunks(parsed.value)]
             ELSE [ok |-> FALSE, data |-> <<>>]
    ELSE LET s == decryptData(encryptedData)
         IN  [ok |-> TRUE, data |-> DecodeSextets(SubSeq(s, 1, (Len(s) \div 4) * 4))]

\* decryptFileBuffer; ok is FALSE where the promise rejects
decryptFileBuffer(encryptedData) ==
    IF startsWith(encryptedData, LBRACKET)
    THEN LET parsed == JSONparse(encryptedData)
         IN  IF parsed.ok
             THEN [ok |-> TRUE, data |-> DecryptChunks(parsed.value)]
             ELSE [ok |-> FALSE, data |-> <<>>]
    ELSE [ok |-> TRUE, data |-> decryptWhole(encryptedData)]

(***************************************************************************)
(* Shares: inputs and record shapes                                        *)
(***************************************************************************)
\* number of /api/upload requests one behaviour handles
MaxUploads == 2
\* number of download handlers that wait for Supabase at the same time
MaxReqs == 2
\* number of distinct salts CryptoJS may draw while an upload is encrypted
NumUploadSalts == 1
\* the count of payload responses per fileId saturates here
MaxServed == 2
\* number of short (just over CACHE_TTL) and long (one day) clock advances
MaxShortTicks == 1
MaxDays == 1

FileIds == {"f1", "f2"}
Tokens == {"t1", "t2"}
Files == { [name |-> "a.txt", type |-> "text/plain", bytes |-> <<255, 10>>] }
ExpiryDays == {-1, 1}
\* the encryptedData query parameter: absent, or a base64 string
EncryptedDataParams == {<<>>, <<16, 32>>}
MaxDownloadsVals == {1, 2}
SharePairs == {<<"f1", "t1">>, <<"f2", "t2">>}
Reqs == 1..MaxReqs

\* time unit: one minute
DAY == 24 * 60
TEMP_STORE_TTL == 24 * 60
CACHE_TTL == 15

EmptyMap == [k \in {} |-> 0]
Has(m, k) == k \in DOMAIN m
MapSet(m, k, v) == [x \in (DOMAIN m) \cup {k} |-> IF x = k THEN v ELSE m[x]]
MapDelete(m, k) == [x \in (DOMAIN m) \ {k} |-> m[x]]

\* the salts CryptoJS draws during one encryptFileBuffer(buf) of an upload
SaltChoices(buf) == SaltsFor(buf, 1..NumUploadSalts)

\* the FileShareData object the upload route builds
NewFileShare(fileId, file, accessToken, expiryDays, maxDownloads, salts) ==
    [ fileId        |-> fileId,
      fileName      |-> file.name,
      fileSize      |-> Len(file.bytes),
      fileType      |-> file.type,
      fileData      |-> encryptFileBuffer(file.bytes, salts),
      uploadedAt    |-> now,
      expiresAt     |-> now + expiryDays * DAY,
      downloadCount |-> 0,
      maxDownloads  |-> maxDownloads,
      accessToken   |-> accessToken,
      isDownloaded  |-> FALSE ]

\* isExpired(expiryDate): new Date() > expiryDate
isExpired(expiryDate) == now > expiryDate

(***************************************************************************)
(* encryption.ts: inMemoryDatabase and temporaryFileStore                  *)
(* saveFileShare puts one object into both maps, so a field written        *)
(* through one map is seen through the other while both hold the entry.    *)
(***************************************************************************)
Null == [null |-> TRUE]

TempLive(fileId) ==
    /\ Has(temporaryFileStore, fileId)
    /\ (now - temporaryFileStore[fileId].timestamp) < TEMP_STORE_TTL

\* getFileShare: the value returned
getFileShare(fileId) ==
    IF Has(inMemoryDatabase, fileId) THEN inMemoryDatabase[fileId]
    ELSE IF TempLive(fileId) THEN temporaryFileStore[fileId].data
    ELSE Null

\* getFileShare: temporaryFileStore after the call (stale entry removed)
TempAfterGet(fileId) ==
    IF ~Has(inMemoryDatabase, fileId) /\ Has(temporaryFileStore, fileId) /\ ~TempLive(fileId)
    THEN MapDelete(temporaryFileStore, fileId)
    ELSE temporaryFileStore

\* fileShare.downloadCount += 1; fileShare.isDownloaded = true, on the
\* object getFileShare returned
BumpedShare(share) ==
    [share EXCEPT !.downloadCount = @ + 1, !.isDownloaded = TRUE]

MemAfterBump(fileId) ==
    IF Has(inMemoryDatabase, fileId)
    THEN [inMemoryDatabase EXCEPT ![fileId] = BumpedShare(@)]
    ELSE inMemoryDatabase

\* a temporary store whose entries were copies: the increment misses them
TempAfterBumpCopied(fileId) == temporaryFileStore

\* the temporary store holds the same object, so it shows the increment too
TempAfterBump(fileId) ==
    IF Has(temporaryFileStore, fileId)
    THEN [temporaryFileStore EXCEPT ![fileId].data = BumpedShare(@)]
    ELSE temporaryFileStore

(***************************************************************************)
(* persistent-store.ts                                                     *)
(***************************************************************************)
\* retrieveFile: the value returned
retrieveFile(fileId) ==
    IF ~Has(fileStore, fileId) THEN Null
    ELSE IF now > fileStore[fileId].expiresAt THEN Null
    ELSE fileStore[fileId]

\* fileStore after an access that drops the entry without looking at expiresAt
StoreAfterAccessDropping(fileId) == MapDelete(fileStore, fileId)

\* retrieveFile / canDownload: fileStore after the call (expired entry removed)
StoreAfterAccess(fileId) ==
    IF Has(fileStore, fileId) /\ now > fileStore[fileId].expiresAt
    THEN MapDelete(fileStore, fileId)
    ELSE fileStore

\* canDownload: the value returned
canDownload(fileId) ==
    /\ Has(fileStore, fileId)
    /\ ~(now > fileStore[fileId].expiresAt)
    /\ ~(fileStore[fileId].downloadCount >= fileStore[fileId].maxDownloads)

\* retrieveFileByToken: the first entry, in the iteration order of the Map,
\* whose accessToken is token (Null when there is none)
FirstWithToken(token) ==
    LET matches == {f \in DOMAIN fileStore : fileStore[f].accessToken = token}
    IN  IF matches = {} THEN Null
        ELSE fileStore[CHOOSE f \in matches :
                          \A g \in matches : fileStore[f].order <= fileStore[g].order]

\* retrieveFileByToken: the value returned
retrieveFileByToken(token) ==
    LET file == FirstWithToken(token)
    IN  IF file = Null THEN Null
        ELSE IF now > file.expiresAt THEN Null
        ELSE file

\* retrieveFileByToken: fileStore after a call that keeps what it finds expired
StoreAfterTokenAccessKeeping(token) == fileStore

\* retrieveFileByToken: fileStore after the call
StoreAfterTokenAccess(token) ==
    LET file == FirstWithToken(token)
    IN  IF file # Null /\ now > file.expiresAt THEN MapDelete(fileStore, file.fileId)
        ELSE fileStore

\* getAllFiles: fileStore after the call, which is also what it returns
StoreAfterGetAll ==
    [f \in {g \in DOMAIN fileStore : ~(now > fileStore[g].expiresAt)} |-> fileStore[f]]

(***************************************************************************)
(* temp-cache.ts                                                           *)
(***************************************************************************)
\* getCachedFile: the value returned
getCachedFile(fileId) ==
    IF ~Has(tempCache, fileId) THEN Null
    ELSE IF now > tempCache[fileId].expiresAt THEN Null
    ELSE tempCache[fileId]

\* getCachedFile: tempCache after the call
CacheAfterGet(fileId) ==
    IF Has(tempCache, fileId) /\ now > tempCache[fileId].expiresAt
    THEN MapDelete(tempCache, fileId)
    ELSE tempCache

(***************************************************************************)
(* Supabase adapter                                                        *)
(***************************************************************************)
\* getShareRecord: .eq('access_token', token).single() reports an error
\* unless exactly one row matches
getShareRecord(accessToken) ==
    IF Has(shares, accessToken)
    THEN [data |-> shares[accessToken], error |-> FALSE]
    ELSE [data |-> Null, error |-> TRUE]

\* the row createShareRecord inserts
NewShareRow(task) ==
    [ id             |-> task.fileId,
      file_name      |-> task.fileName,
      file_size      |-> task.fileSize,
      encrypted_key  |-> task.accessToken,
      access_token   |-> task.accessToken,
      expires_at     |-> task.expiresAt,
      max_downloads  |-> task.maxDownloads,
      download_count |-> 0 ]

\* id is the primary key and access_token is UNIQUE
InsertAllowed(row) ==
    /\ ~Has(shares, row.access_token)
    /\ \A t \in DOMAIN shares : shares[t].id # row.id

\* increment_downloads(token): UPDATE shares SET download_count = download_count + 1
IncrementedShares(accessToken) ==
    IF Has(shares, accessToken)
    THEN [shares EXCEPT ![accessToken].download_count = @ + 1]
    ELSE shares

\* the object key `${fileId}.enc`
ObjectKey(fileId) == <<fileId, "enc">>

(***************************************************************************)
(* Responses and request slots                                             *)
(***************************************************************************)
NoMeta == [none |-> TRUE]

Reply(status) == [status |-> status, kind |-> "error", meta |-> NoMeta, data |-> <<>>]
ReplyMeta(meta) == [status |-> 200, kind |-> "meta", meta |-> meta, data |-> <<>>]
ReplyFile(data) == [status |-> 200, kind |-> "file", meta |-> NoMeta, data |-> data]
NoReply == [status |-> 0, kind |-> "none", meta |-> NoMeta, data |-> <<>>]

\* a slot holds one download handler that is waiting for Supabase: the await
\* it stands at, what it was asked, the object key and the bytes it holds
IdleReq ==
    [pc |-> "idle", fileId |-> "none", token |-> "none", key |-> <<>>, data |-> <<>>]

\* the handler in slot r has returned its response
Done(r) == [req EXCEPT ![r] = IdleReq]

\* the lowest free slot takes the next handler
CanStart(r) ==
    /\ req[r].pc = "idle"
    /\ \A q \in Reqs : q < r => req[q].pc # "idle"

Started(r, fileId, token) ==
    [req EXCEPT ![r] = [IdleReq EXCEPT !.pc = "getShareRecord", !.fileId = fileId,
                                       !.token = token]]

\* the JSON body the share routes build from an in-memory FileShareData
MetaOfShare(fs) ==
    [ fileId        |-> fs.fileId,
      fileName      |-> fs.fileName,
      fileSize      |-> fs.fileSize,
      fileType      |-> fs.fileType,
      expiresAt     |-> fs.expiresAt,
      downloadCount |-> fs.downloadCount,
      maxDownloads  |-> fs.maxDownloads,
      isExpired     |-> isExpired(fs.expiresAt),
      canDownload   |-> /\ ~isExpired(fs.expiresAt)
                        /\ (fs.maxDownloads = 0 \/ fs.downloadCount < fs.maxDownloads) ]

\* ... from a StoredFile of the persistent store
MetaOfStored(pf) ==
    [ fileId        |-> pf.fileId,
      fileName      |-> pf.fileName,
      fileSize      |-> pf.fileSize,
      fileType      |-> pf.fileType,
      expiresAt     |-> pf.expiresAt,
      downloadCount |-> pf.downloadCount,
      maxDownloads  |-> pf.maxDownloads,
      isExpired     |-> now > pf.expiresAt,
      canDownload   |-> ~(now > pf.expiresAt) /\ pf.downloadCount < pf.maxDownloads ]

\* ... from a CachedFile of the temporary cache
MetaOfCached(fileId, cf) ==
    [ fileId        |-> fileId,
      fileName      |-> cf.fileName,
      fileSize      |-> cf.fileSize,
      fileType      |-> cf.fileType,
      expiresAt     |-> cf.expiresAt,
      downloadCount |-> 0,
      maxDownloads  |-> 5,
      isExpired     |-> now > cf.expiresAt,
      canDownload   |-> ~(now > cf.expiresAt) ]

\* ... from a row of the shares table
MetaOfRow(fileId, row) ==
    [ fileId        |-> fileId,
      fileName      |-> row.file_name,
      fileSize      |-> row.file_size,
      fileType      |-> "application/octet-stream",
      expiresAt     |-> row.expires_at,
      downloadCount |-> row.download_count,
      maxDownloads  |-> row.max_downloads,
      isExpired     |-> FALSE,
      canDownload   |-> row.download_count < row.max_downloads ]

(***************************************************************************)
(* GET /api/share, four-tier lookup: the tiers after Supabase              *)
(***************************************************************************)
\* the response and the stores as the lookup through the persistent store,
\* the temporary cache and the in-memory store leaves them
LocalTiersLookup(fileId, token) ==
    LET persistedFile == retrieveFile(fileId)
        cachedFile    == getCachedFile(fileId)
        fileShare     == getFileShare(fileId)
    IN  IF persistedFile # Null /\ persistedFile.accessToken = token THEN
            [ resp  |-> ReplyMeta(MetaOfStored(persistedFile)),
              store |-> StoreAfterAccess(fileId),
              cache |-> tempCache,
              temp  |-> temporaryFileStore ]
        ELSE IF cachedFile # Null THEN
            [ resp  |-> ReplyMeta(MetaOfCached(fileId, cachedFile)),
              store |-> StoreAfterAccess(fileId),
              cache |-> CacheAfterGet(fileId),
              temp  |-> temporaryFileStore ]
        ELSE
            [ resp  |-> IF fileShare = Null THEN Reply(404)
                        ELSE IF fileShare.accessToken # token THEN Reply(403)
                        ELSE ReplyMeta(MetaOfShare(fileShare)),
              store |-> StoreAfterAccess(fileId),
              cache |-> CacheAfterGet(fileId),
              temp  |-> TempAfterGet(fileId) ]

(***************************************************************************)
(* upload-chunk/route.ts: sessions and their chunk Maps                    *)
(* A session is an object: a handler that fetched it before its await      *)
(* keeps that object whatever uploadSessions holds afterwards.  A chunk Map *)
(* is the sequence of its entries in insertion order.                      *)
(***************************************************************************)
\* number of chunk requests one behaviour handles
MaxChunkCalls == 5
\* number of chunk handlers that read their body at the same time
MaxChunkReqs == 2
\* number of session objects one behaviour creates
MaxSessions == 2
\* number of clock advances of just over an hour
MaxHours == 1

\* 3600000 ms, in minutes
HOUR == 60

ChunkReqs == 1..MaxChunkReqs

\* the client cuts a file into totalChunks parts and sends that number and
\* the file's token with every part
totalChunksOf(fileId) == IF fileId = "f1" THEN 2 ELSE 3
accessTokenOf(fileId) == IF fileId = "f1" THEN "t1" ELSE "t2"
ChunkIndices(fileId) == 0..(totalChunksOf(fileId) - 1)

\* the bytes of part chunkIndex of the file uploaded as fileId
PartBytes(fileId, chunkIndex) ==
    <<(IF fileId = "f1" THEN 1 ELSE 101) + chunkIndex>>

\* the expiryDays form field of a chunk request: parseInt(...) || 7
ChunkExpiryDays == {-1, 1}

IdleChunkReq ==
    [pc |-> "idle", fileId |-> "none", chunkIndex |-> 0, totalChunks |-> 0,
     expiryDays |-> 0, session |-> 0]

\* Map.has(chunkIndex)
ChunkHas(chunks, chunkIndex) == \E k \in 1..Len(chunks) : chunks[k].index = chunkIndex

\* Map.get(chunkIndex), for a key the Map has
ChunkGet(chunks, chunkIndex) ==
    chunks[CHOOSE k \in 1..Len(chunks) : chunks[k].index = chunkIndex].buf

\* Map.set(chunkIndex, buf): a new key goes to the end, a known key keeps its place
ChunkSet(chunks, chunkIndex, buf) ==
    IF ChunkHas(chunks, chunkIndex)
    THEN [k \in 1..Len(chunks) |->
             IF chunks[k].index = chunkIndex THEN [index |-> chunkIndex, buf |-> buf]
             ELSE chunks[k]]
    ELSE Append(chunks, [index |-> chunkIndex, buf |-> buf])

\* the loop over 0..totalChunks-1 finds an index without a chunk
MissingChunk(chunks, totalChunks) ==
    \E i \in 0..(totalChunks - 1) : ~ChunkHas(chunks, i)

RECURSIVE AssembleByArrival(_, _)
AssembleByArrival(chunks, totalChunks) ==
    IF totalChunks = 0 THEN <<>>
    ELSE AssembleByArrival(chunks, totalChunks - 1) \o chunks[totalChunks].buf

RECURSIVE Assemble(_, _)
\* Buffer.concat of session.chunks.get(i) for i = 0..totalChunks-1
Assemble(chunks, totalChunks) ==
    IF totalChunks = 0 THEN <<>>
    ELSE Assemble(chunks, totalChunks - 1) \o ChunkGet(chunks, totalChunks - 1)

\* the session object a request creates when uploadSessions has none
NewSession(fileId, totalChunks, expiryDays) ==
    [ chunks       |-> <<>>,
      totalChunks  |-> totalChunks,
      accessToken  |-> accessTokenOf(fileId),
      expiryDays   |-> expiryDays,
      maxDownloads |-> 1,
      createdAt    |-> now ]

\* the FileShareData the chunk route builds when all chunks are there
ChunkFileShare(fileId, bytes, expiryDays, salts) ==
    [ fileId        |-> fileId,
      fileName      |-> "a.txt",
      fileSize      |-> Len(bytes),
      fileType      |-> "application/octet-stream",
      fileData      |-> encryptFileBuffer(bytes, salts),
      uploadedAt    |-> now,
      expiresAt     |-> now + expiryDays * DAY,
      downloadCount |-> 0,
      maxDownloads  |-> 1,
      accessToken   |-> accessTokenOf(fileId),
      isDownloaded  |-> FALSE ]

\* no uploadFileInChunks call has been made
NoClient ==
    [pc |-> "idle", fileId |-> "none", totalChunks |-> 0, chunkIndex |-> 0,
     handler |-> 0, ok |-> FALSE, committed |-> FALSE]

ChunkInit ==
    /\ uploadSessions = [k \in {} |-> 0]
    /\ sessionObjects = <<>>
    /\ chunkReq = [h \in ChunkReqs |-> IdleChunkReq]
    /\ chunkCalls = 0
    /\ swept = {}
    /\ client = NoClient

(***************************************************************************)
(* Initial state: empty stores, nothing in flight                          *)
(***************************************************************************)
ShareInit ==
    /\ now = 0
    /\ inMemoryDatabase = EmptyMap
    /\ temporaryFileStore = EmptyMap
    /\ fileStore = EmptyMap
    /\ tempCache = EmptyMap
    /\ shares = EmptyMap
    /\ storage = EmptyMap
    /\ bg = <<>>
    /\ writes = 0
    /\ req = [r \in Reqs |-> IdleReq]
    /\ served = [f \in FileIds |-> 0]
    /\ deleted = {}
    /\ ChunkInit
    /\ rateLimitStore = EmptyMap
    /\ passed = EmptyMap

CodecIdle ==
    /\ buffer = <<>>
    /\ encrypted = <<>>
    /\ decrypted = [ok |-> FALSE, data |-> <<>>]
    /\ cpc = "idle"

\* a deployment without Supabase credentials
Init ==
    /\ ShareInit
    /\ supabaseConfigured = FALSE
    /\ downloadRoute \in {"persistent", "memory"}
    /\ CodecIdle

\* a deployment with Supabase credentials
InitSupabase ==
    /\ ShareInit
    /\ supabaseConfigured = TRUE
    /\ downloadRoute \in {"memory", "supabase"}
    /\ CodecIdle

(***************************************************************************)
(* POST /api/upload and its background propagation to Supabase             *)
(***************************************************************************)
NewTask(fs) ==
    [ stage        |-> "upload",
      fileId       |-> fs.fileId,
      fileName     |-> fs.fileName,
      fileSize     |-> fs.fileSize,
      accessToken  |-> fs.accessToken,
      expiresAt    |-> fs.expiresAt,
      maxDownloads |-> fs.maxDownloads,
      data         |-> fs.fileData ]

DoneTask == [stage |-> "done"]

\* saveFileShare(fileShare)
SaveFileShare(fs) ==
    /\ inMemoryDatabase' = MapSet(inMemoryDatabase, fs.fileId, fs)
    /\ temporaryFileStore' =
          MapSet(temporaryFileStore, fs.fileId, [data |-> fs, timestamp |-> now])

\* the upload route from the parsed form to the response: encrypt, save,
\* start the background chain, answer 200
Upload(fileId, accessToken, file, expiryDays, maxDownloads) ==
    /\ writes < MaxUploads
    /\ writes' = writes + 1
    /\ \E salts \in SaltChoices(file.bytes) :
          LET fs == NewFileShare(fileId, file, accessToken, expiryDays, maxDownloads, salts)
          IN  /\ SaveFileShare(fs)
              /\ bg' = IF supabaseConfigured THEN Append(bg, NewTask(fs)) ELSE bg
    /\ deleted' = deleted \ {fileId}
    /\ served' = [served EXCEPT ![fileId] = 0]
    /\ UNCHANGED <<now, deployVars, proxyVars, fileStore, tempCache, supaVars, req, codecVars, chunkVars>>

\* uploadToSupabase: upload(`${fileId}.enc`, buffer, {upsert: false})
StorageAfterUpload(task) ==
    IF Has(storage, ObjectKey(task.fileId)) THEN storage
    ELSE MapSet(storage, ObjectKey(task.fileId), task.data)

\* the storage upload settles before the 5 second timer; uploadToSupabase
\* resolves (with or without an error field), so the chain goes on to
\* createShareRecord
BgUploadSettles(i) ==
    /\ i \in DOMAIN bg
    /\ bg[i].stage = "upload"
    /\ storage' = StorageAfterUpload(bg[i])
    /\ bg' = [bg EXCEPT ![i].stage = "createRecord"]
    /\ UNCHANGED <<now, deployVars, proxyVars, localVars, shares, writes, req, served, deleted, codecVars, chunkVars>>

BgUploadTimeoutSurfaced(i) ==
    /\ i \in DOMAIN bg
    /\ bg[i].stage = "upload"
    /\ bg' = [bg EXCEPT ![i].stage = "lateUpload"]
    /\ inMemoryDatabase' = MapDelete(inMemoryDatabase, bg[i].fileId)
    /\ UNCHANGED <<now, deployVars, proxyVars, temporaryFileStore, fileStore, tempCache, supaVars,
                   writes, req, served, deleted, codecVars, chunkVars>>

\* the 5 second timer wins Promise.race: the chain rejects and is logged;
\* the storage upload itself is still in flight
BgUploadTimeout(i) ==
    /\ i \in DOMAIN bg
    /\ bg[i].stage = "upload"
    /\ bg' = [bg EXCEPT ![i].stage = "lateUpload"]
    /\ UNCHANGED <<now, deployVars, proxyVars, localVars, supaVars, writes, req, served, deleted, codecVars, chunkVars>>

\* a storage upload that lost the race settles
BgLateUploadSettles(i) ==
    /\ i \in DOMAIN bg
    /\ bg[i].stage = "lateUpload"
    /\ storage' = StorageAfterUpload(bg[i])
    /\ bg' = [bg EXCEPT ![i] = DoneTask]
    /\ UNCHANGED <<now, deployVars, proxyVars, localVars, shares, writes, req, served, deleted, codecVars, chunkVars>>

\* createShareRecord: insert into shares
BgCreateShareRecord(i) ==
    /\ i \in DOMAIN bg
    /\ bg[i].stage = "createRecord"
    /\ LET row == NewShareRow(bg[i])
       IN  shares' = IF InsertAllowed(row) THEN MapSet(shares, row.access_token, row)
                     ELSE shares
    /\ bg' = [bg EXCEPT ![i] = DoneTask]
    /\ UNCHANGED <<now, deployVars, proxyVars, localVars, storage, writes, req, served, deleted, codecVars, chunkVars>>

(***************************************************************************)
(* Exported store operations                                               *)
(***************************************************************************)
\* deleteFileShare(fileId): inMemoryDatabase.delete(fileId)
DeleteFileShare(fileId) ==
    /\ inMemoryDatabase' = MapDelete(inMemoryDatabase, fileId)
    /\ deleted' = IF Has(inMemoryDatabase, fileId) THEN deleted \cup {fileId} ELSE deleted
    /\ UNCHANGED <<now, deployVars, proxyVars, temporaryFileStore, fileStore, tempCache,
                   supaVars, bg, writes, req, served, codecVars, chunkVars>>

\* number of increments updateDownloadCount makes on one record
MaxBumps == 3

\* updateDownloadCount(fileId): the in-memory record, when there is one,
\* counts one more download
UpdateDownloadCount(fileId) ==
    /\ Has(inMemoryDatabase, fileId)
    /\ inMemoryDatabase[fileId].downloadCount < MaxBumps
    /\ inMemoryDatabase' = MemAfterBump(fileId)
    /\ temporaryFileStore' = TempAfterBump(fileId)
    /\ UNCHANGED <<now, deployVars, proxyVars, fileStore, tempCache, supaVars, bg, writes, req,
                   served, deleted, codecVars, chunkVars>>

\* getAllFileShares: the fileIds of the records it returns, the in-memory
\* ones and the temporary ones that are not in memory and were uploaded
\* less than TEMP_STORE_TTL ago
getAllFileShares ==
    (DOMAIN inMemoryDatabase)
    \cup {f \in DOMAIN temporaryFileStore :
             /\ ~Has(inMemoryDatabase, f)
             /\ (now - temporaryFileStore[f].data.uploadedAt) < TEMP_STORE_TTL}

\* the record getAllFileShares returns for fileId
ListedShare(fileId) ==
    IF Has(inMemoryDatabase, fileId) THEN inMemoryDatabase[fileId]
    ELSE temporaryFileStore[fileId].data

\* cleanupExpiredFiles: the files its loop finds expired
ExpiredListed == {f \in getAllFileShares : isExpired(ListedShare(f).expiresAt)}

\* cleanupExpiredFiles: the count it returns, one for every expired file of
\* the list whether or not deleteFileShare removed anything
cleanupExpiredFilesCount == Cardinality(ExpiredListed)

\* cleanupExpiredFiles(): deleteFileShare(file.fileId) for every expired file
CleanupExpiredFiles ==
    /\ ExpiredListed # {}
    /\ inMemoryDatabase' =
          [f \in (DOMAIN inMemoryDatabase) \ ExpiredListed |-> inMemoryDatabase[f]]
    /\ deleted' = deleted \cup (ExpiredListed \cap DOMAIN inMemoryDatabase)
    /\ UNCHANGED <<now, deployVars, proxyVars, temporaryFileStore, fileStore, tempCache,
                   supaVars, bg, writes, req, served, codecVars, chunkVars>>

\* deleteShareRecord(accessToken)
DeleteShareRecord(accessToken) ==
    /\ supabaseConfigured
    /\ Has(shares, accessToken)
    /\ shares' = MapDelete(shares, accessToken)
    /\ UNCHANGED <<now, deployVars, proxyVars, localVars, storage, bg, writes, req, served, deleted, codecVars, chunkVars>>

\* storeFile(file) with a freshly built StoredFile; `order` is the place of
\* the entry in the iteration order of the Map: set() of a new key appends,
\* set() of an existing key keeps its place
StoreFile(fileId, accessToken, file, expiryDays, maxDownloads) ==
    /\ writes < MaxUploads
    /\ writes' = writes + 1
    /\ \E salts \in SaltChoices(file.bytes) :
          fileStore' = MapSet(fileStore, fileId,
              [ fileId        |-> fileId,
                fileName      |-> file.name,
                fileSize      |-> Len(file.bytes),
                fileType      |-> file.type,
                encryptedData |-> encryptFileBuffer(file.bytes, salts),
                accessToken   |-> accessToken,
                expiresAt     |-> now + expiryDays * DAY,
                maxDownloads  |-> maxDownloads,
                downloadCount |-> 0,
                uploadedAt    |-> now,
                order         |-> IF Has(fileStore, fileId) THEN fileStore[fileId].order
                                  ELSE writes + 1 ])
    /\ UNCHANGED <<now, deployVars, proxyVars, inMemoryDatabase, temporaryFileStore, tempCache,
                   supaVars, bg, req, served, deleted, codecVars, chunkVars>>

\* a direct call of retrieveFile(fileId) or canDownload(fileId)
RetrieveFile(fileId) ==
    /\ Has(fileStore, fileId)
    /\ fileStore' = StoreAfterAccess(fileId)
    /\ UNCHANGED <<now, deployVars, proxyVars, inMemoryDatabase, temporaryFileStore, tempCache,
                   supaVars, bg, writes, req, served, deleted, codecVars, chunkVars>>

\* a direct call of retrieveFileByToken(token)
RetrieveFileByToken(token) ==
    /\ FirstWithToken(token) # Null
    /\ fileStore' = StoreAfterTokenAccess(token)
    /\ UNCHANGED <<now, deployVars, proxyVars, inMemoryDatabase, temporaryFileStore, tempCache,
                   supaVars, bg, writes, req, served, deleted, codecVars, chunkVars>>

\* a direct call of getAllFiles()
GetAllFiles ==
    /\ fileStore # EmptyMap
    /\ fileStore' = StoreAfterGetAll
    /\ UNCHANGED <<now, deployVars, proxyVars, inMemoryDatabase, temporaryFileStore, tempCache,
                   supaVars, bg, writes, req, served, deleted, codecVars, chunkVars>>

\* cacheFile(fileId, file)
CacheFile(fileId, file) ==
    /\ writes < MaxUploads
    /\ writes' = writes + 1
    /\ \E salts \in SaltChoices(file.bytes) :
          tempCache' = MapSet(tempCache, fileId,
              [ encryptedData |-> encryptFileBuffer(file.bytes, salts),
                fileName      |-> file.name,
                fileSize      |-> Len(file.bytes),
                fileType      |-> file.type,
                expiresAt     |-> now + CACHE_TTL,
                createdAt     |-> now ])
    /\ UNCHANGED <<now, deployVars, proxyVars, inMemoryDatabase, temporaryFileStore, fileStore,
                   supaVars, bg, req, served, deleted, codecVars, chunkVars>>

(***************************************************************************)
(* Environment: the clock, and a restart of the server instance            *)
(***************************************************************************)
TickShort ==
    /\ (now % DAY) < MaxShortTicks * (CACHE_TTL + 1)
    /\ now' = now + CACHE_TTL + 1
    /\ UNCHANGED <<deployVars, proxyVars, localVars, supaVars, bg, writes, req, served, deleted, codecVars, chunkVars>>

TickDay ==
    /\ (now \div DAY) < MaxDays
    /\ now' = now + DAY
    /\ UNCHANGED <<deployVars, proxyVars, localVars, supaVars, bg, writes, req, served, deleted, codecVars, chunkVars>>

Quiescent ==
    /\ \A r \in Reqs : req[r].pc = "idle"
    /\ \A i \in DOMAIN bg : bg[i].stage = "done"

\* the instance is recycled while nothing is in flight: every module-level
\* Map starts empty again
Restart ==
    /\ Quiescent
    /\ localVars # <<EmptyMap, EmptyMap, EmptyMap, EmptyMap>>
    /\ inMemoryDatabase' = EmptyMap
    /\ temporaryFileStore' = EmptyMap
    /\ fileStore' = EmptyMap
    /\ tempCache' = EmptyMap
    /\ UNCHANGED <<now, deployVars, proxyVars, supaVars, bg, writes, req, served, deleted, codecVars, chunkVars>>

(***************************************************************************)
(* GET /api/share                                                          *)
(* Each share route has at most one await, getShareRecord(token), and      *)
(* reads nothing before it: the handler is one step, taken when the query  *)
(* resolves.                                                               *)
(***************************************************************************)
\* the four-tier route finds its answer in Supabase
SupabaseTierHit(token) ==
    supabaseConfigured /\ getShareRecord(token).data # Null

\* the response of the four-tier route
ShareTieredReply(fileId, token) ==
    IF SupabaseTierHit(token)
    THEN LET record == getShareRecord(token).data
         IN  IF now > record.expires_at THEN Reply(410)
             ELSE ReplyMeta(MetaOfRow(fileId, record))
    ELSE LocalTiersLookup(fileId, token).resp

\* four-tier route: Supabase, persistent store, temporary cache, in-memory
ShareTiered(fileId, token) ==
    /\ IF SupabaseTierHit(token)
       THEN UNCHANGED <<fileStore, tempCache, temporaryFileStore>>
       ELSE LET look == LocalTiersLookup(fileId, token)
            IN  /\ fileStore' = look.store
                /\ tempCache' = look.cache
                /\ temporaryFileStore' = look.temp
    /\ UNCHANGED <<now, deployVars, proxyVars, inMemoryDatabase, supaVars, bg, writes, req,
                   served, deleted, codecVars, chunkVars>>

\* the response of the Supabase-only route
ShareSupabaseReply(fileId, token) ==
    LET res == getShareRecord(token)
    IN  IF ~supabaseConfigured THEN Reply(503)
        ELSE IF res.error THEN Reply(500)
        ELSE IF res.data = Null THEN Reply(404)
        ELSE IF now > res.data.expires_at THEN Reply(410)
        ELSE ReplyMeta(MetaOfRow(fileId, res.data))

\* Supabase-only route: it reads the row and writes nothing
ShareSupabase(fileId, token) ==
    /\ ShareSupabaseReply(fileId, token).status \in {200, 404, 410, 500, 503}
    /\ UNCHANGED vars

(***************************************************************************)
(* GET /api/download: three versions of the handler                        *)
(*   "persistent": encryptedData parameter, persistent store, in-memory    *)
(*   "memory":     in-memory store, then Supabase                          *)
(*   "supabase":   Supabase only                                           *)
(***************************************************************************)
\* one more payload response for fileId
ServedAfter(fileId, resp) ==
    IF resp.kind = "file"
    THEN [served EXCEPT ![fileId] = Min(@ + 1, MaxServed)]
    ELSE served

RECURSIVE DecodeEach(_)
\* Buffer.concat(chunks.map(chunk => Buffer.from(chunk, 'base64')))
DecodeEach(chunks) ==
    IF Len(chunks) = 0 THEN <<>>
    ELSE Base64Decode(chunks[1]) \o DecodeEach(Tail(chunks))

\* the bytes the persistent-store branch sends for a stored encryptedData string
PersistedBytes(encryptedData) ==
    LET parsed == JSONparse(encryptedData)
    IN  IF parsed.ok THEN DecodeEach(parsed.value) ELSE Base64Decode(encryptedData)

\* the persistent-store branch is taken
PersistentHit(fileId, token) ==
    canDownload(fileId) /\ fileStore[fileId].accessToken = token

\* "persistent": the response without the encryptedData parameter
DownloadPersistentReply(fileId, token) ==
    LET fileShare == getFileShare(fileId)
    IN  IF PersistentHit(fileId, token)
        THEN ReplyFile(PersistedBytes(fileStore[fileId].encryptedData))
        ELSE IF fileShare = Null THEN Reply(404)
        ELSE IF fileShare.accessToken # token THEN Reply(403)
        ELSE ReplyFile(fileShare.fileData)

\* "persistent": the response with the encryptedData parameter, the caller's
\* own data decoded and sent back
DownloadEchoReply(param) == ReplyFile(Base64Decode(param))

\* "persistent": the whole handler
DownloadPersistent(fileId, token, param) ==
    /\ downloadRoute = "persistent"
    /\ IF param # <<>>
       THEN UNCHANGED <<fileStore, temporaryFileStore, served>>
       ELSE /\ IF PersistentHit(fileId, token)
               THEN /\ fileStore' = [fileStore EXCEPT ![fileId].downloadCount = @ + 1]
                    /\ UNCHANGED temporaryFileStore
               ELSE /\ fileStore' = StoreAfterAccess(fileId)
                    /\ temporaryFileStore' = TempAfterGet(fileId)
            /\ served' = ServedAfter(fileId, DownloadPersistentReply(fileId, token))
    /\ UNCHANGED <<now, deployVars, proxyVars, inMemoryDatabase, tempCache, supaVars, bg, writes,
                   req, deleted, codecVars, chunkVars>>

\* "memory": the in-memory branch is taken
MemoryHit(fileId, token) ==
    getFileShare(fileId) # Null /\ getFileShare(fileId).accessToken = token

\* "memory": the response of the in-memory branch: expiry, limit, file
DownloadMemoryHitReply(fileId) ==
    LET fileShare == getFileShare(fileId)
    IN  IF fileShare.expiresAt < now THEN Reply(410)
        ELSE IF fileShare.maxDownloads # 0 /\ fileShare.downloadCount >= fileShare.maxDownloads
             THEN Reply(429)
        ELSE ReplyFile(fileShare.fileData)

\* "memory": the response when the handler does not go to Supabase
DownloadMemoryReply(fileId, token) ==
    IF MemoryHit(fileId, token) THEN DownloadMemoryHitReply(fileId) ELSE Reply(404)

\* "memory": the handler answers from the in-memory store, or with 404 when
\* the store misses and there are no Supabase credentials
DownloadMemory(fileId, token) ==
    /\ downloadRoute = "memory"
    /\ MemoryHit(fileId, token) \/ ~supabaseConfigured
    /\ IF MemoryHit(fileId, token) /\ DownloadMemoryHitReply(fileId).kind = "file"
       THEN /\ inMemoryDatabase' = MemAfterBump(fileId)
            /\ temporaryFileStore' = TempAfterBump(fileId)
       ELSE /\ temporaryFileStore' = TempAfterGet(fileId)
            /\ UNCHANGED inMemoryDatabase
    /\ served' = ServedAfter(fileId, DownloadMemoryReply(fileId, token))
    /\ UNCHANGED <<now, deployVars, proxyVars, fileStore, tempCache, supaVars, bg, writes, req,
                   deleted, codecVars, chunkVars>>

\* "memory": the in-memory store misses and the handler awaits getShareRecord
DownloadMemoryStart(r, fileId, token) ==
    /\ downloadRoute = "memory"
    /\ supabaseConfigured
    /\ ~MemoryHit(fileId, token)
    /\ CanStart(r)
    /\ temporaryFileStore' = TempAfterGet(fileId)
    /\ req' = Started(r, fileId, token)
    /\ UNCHANGED <<now, deployVars, proxyVars, inMemoryDatabase, fileStore, tempCache, supaVars,
                   bg, writes, served, deleted, codecVars, chunkVars>>

\* "supabase": the handler awaits getShareRecord (without credentials it
\* answers 503 and touches nothing)
DownloadSupabaseStart(r, fileId, token) ==
    /\ downloadRoute = "supabase"
    /\ supabaseConfigured
    /\ CanStart(r)
    /\ req' = Started(r, fileId, token)
    /\ UNCHANGED <<now, deployVars, proxyVars, localVars, supaVars, bg, writes, served, deleted,
                   codecVars, chunkVars>>

\* the response a handler sends when getShareRecord(token) resolves now;
\* NoReply when it goes on to downloadFromSupabase
DownloadGetRecordReply(request) ==
    LET res == getShareRecord(request.token)
    IN  IF res.error /\ downloadRoute = "supabase" THEN Reply(500)
        ELSE IF res.error \/ res.data = Null THEN Reply(404)
        ELSE IF res.data.expires_at < now THEN Reply(410)
        ELSE IF res.data.download_count >= res.data.max_downloads THEN Reply(429)
        ELSE NoReply

\* the object key the handler asks downloadFromSupabase for
DownloadKey(request, record) ==
    IF downloadRoute = "supabase"
    THEN ObjectKey(record.encrypted_key)
    ELSE ObjectKey(request.fileId)

\* getShareRecord(token) resolves: not found, expiry and limit checks on the
\* row just read, then downloadFromSupabase is issued
DownloadGetRecord(r) ==
    /\ req[r].pc = "getShareRecord"
    /\ req' = IF DownloadGetRecordReply(req[r]) # NoReply THEN Done(r)
              ELSE [req EXCEPT ![r].pc = "download",
                               ![r].key = DownloadKey(req[r], shares[req[r].token])]
    /\ UNCHANGED <<now, deployVars, proxyVars, localVars, supaVars, bg, writes, served, deleted,
                   codecVars, chunkVars>>

\* the response a handler sends when downloadFromSupabase resolves now;
\* NoReply when it goes on to incrementDownloadCount
DownloadFromStorageReply(request) ==
    IF Has(storage, request.key) THEN NoReply ELSE Reply(500)

\* downloadFromSupabase resolves; on success incrementDownloadCount is issued
DownloadFromStorage(r) ==
    /\ req[r].pc = "download"
    /\ req' = IF DownloadFromStorageReply(req[r]) # NoReply THEN Done(r)
              ELSE [req EXCEPT ![r].pc = "increment", ![r].data = storage[req[r].key]]
    /\ UNCHANGED <<now, deployVars, proxyVars, localVars, supaVars, bg, writes, served, deleted,
                   codecVars, chunkVars>>

\* the response a handler sends when incrementDownloadCount resolves
DownloadIncrementReply(request) == ReplyFile(request.data)

\* increment_downloads(token) runs in the database and the handler sends the file
DownloadIncrement(r) ==
    /\ req[r].pc = "increment"
    /\ shares' = IncrementedShares(req[r].token)
    /\ served' = ServedAfter(req[r].fileId, DownloadIncrementReply(req[r]))
    /\ req' = Done(r)
    /\ UNCHANGED <<now, deployVars, proxyVars, localVars, storage, bg, writes, deleted, codecVars, chunkVars>>

(***************************************************************************)
(* A read of the shares table that fails: getShareRecord catches the error  *)
(* and resolves to {error: message} with no data                            *)
(***************************************************************************)
\* the response of the four-tier route when getShareRecord resolves to an
\* error: only shareRecordResult.data is looked at, so the lower tiers answer
ShareTieredFailedReply(fileId, token) == LocalTiersLookup(fileId, token).resp

\* four-tier route, getShareRecord failed
ShareTieredFailed(fileId, token) ==
    /\ supabaseConfigured
    /\ LET look == LocalTiersLookup(fileId, token)
       IN  /\ fileStore' = look.store
           /\ tempCache' = look.cache
           /\ temporaryFileStore' = look.temp
    /\ UNCHANGED <<now, deployVars, proxyVars, inMemoryDatabase, supaVars, bg, writes, req,
                   served, deleted, codecVars, chunkVars>>

\* the response of a download handler whose getShareRecord resolves to an error
DownloadFailedReply(request) ==
    IF downloadRoute = "supabase" THEN Reply(500) ELSE Reply(404)

\* download handler, getShareRecord failed: it answers and touches nothing
DownloadGetRecordFailed(r) ==
    /\ req[r].pc = "getShareRecord"
    /\ DownloadFailedReply(req[r]).kind = "error"
    /\ req' = Done(r)
    /\ UNCHANGED <<now, deployVars, proxyVars, localVars, supaVars, bg, writes, served, deleted,
                   codecVars, chunkVars>>

(***************************************************************************)
(* POST /api/upload-chunk                                                  *)
(* The handler runs to `await chunk.arrayBuffer()` with the session it got *)
(* or created, and from there to its response.                             *)
(***************************************************************************)
\* the lowest free slot takes the next chunk request
CanStartChunk(h) ==
    /\ chunkReq[h].pc = "idle"
    /\ \A g \in ChunkReqs : g < h => chunkReq[g].pc # "idle"
    /\ chunkCalls < MaxChunkCalls

\* parseInt of a form field that is missing or not a numeral is NaN: a Map
\* key like any other, and equal to no size.  It is written as an integer
\* that no field of the model parses to.
NaN == -1000

\* a form field: missing, text that is no numeral, or a decimal numeral
MissingField == [kind |-> "missing", n |-> 0]
TextField == [kind |-> "text", n |-> 0]
NumberField(n) == [kind |-> "number", n |-> n]

\* parseInt(formData.get(name) as string)
parseInt(field) == IF field.kind = "number" THEN field.n ELSE NaN

\* get or create the upload session, then wait for the body of the chunk;
\* `chunkIndex === undefined || totalChunks === undefined` is false for
\* every value parseInt returns, so no parsed value is turned away
ChunkRequestStart(h, fileId, chunkIndex, totalChunks, expiryDays) ==
    /\ CanStartChunk(h)
    /\ Has(uploadSessions, fileId) \/ Len(sessionObjects) < MaxSessions
    /\ chunkCalls' = chunkCalls + 1
    /\ IF Has(uploadSessions, fileId)
       THEN /\ chunkReq' = [chunkReq EXCEPT ![h] =
                   [pc |-> "arrayBuffer", fileId |-> fileId, chunkIndex |-> chunkIndex,
                    totalChunks |-> totalChunks, expiryDays |-> expiryDays,
                    session |-> uploadSessions[fileId]]]
            /\ UNCHANGED <<uploadSessions, sessionObjects>>
       ELSE /\ sessionObjects' =
                   Append(sessionObjects, NewSession(fileId, totalChunks, expiryDays))
            /\ uploadSessions' = MapSet(uploadSessions, fileId, Len(sessionObjects) + 1)
            /\ chunkReq' = [chunkReq EXCEPT ![h] =
                   [pc |-> "arrayBuffer", fileId |-> fileId, chunkIndex |-> chunkIndex,
                    totalChunks |-> totalChunks, expiryDays |-> expiryDays,
                    session |-> Len(sessionObjects) + 1]]
    /\ UNCHANGED <<shareVars, codecVars, swept>>

\* a chunk request that does not come from the uploadFileInChunks call
ChunkStartWith(h, fileId, chunkIndex, totalChunks, expiryDays) ==
    /\ ChunkRequestStart(h, fileId, chunkIndex, totalChunks, expiryDays)
    /\ UNCHANGED client

\* a request of a client that sends totalChunks as it is for the file
ChunkStart(h, fileId, chunkIndex, expiryDays) ==
    ChunkStartWith(h, fileId, chunkIndex, totalChunksOf(fileId), expiryDays)

\* session.chunks after the handler has stored its chunk
ChunksAfterSet(request) ==
    ChunkSet(sessionObjects[request.session].chunks, request.chunkIndex,
             PartBytes(request.fileId, request.chunkIndex))

\* the response of a handler whose body arrives now
ChunkFinishReply(request) ==
    LET chunks == ChunksAfterSet(request)
    IN  IF Len(chunks) # request.totalChunks THEN [status |-> 200, kind |-> "pending"]
        ELSE IF MissingChunk(chunks, request.totalChunks)
             THEN [status |-> 400, kind |-> "error"]
        ELSE [status |-> 200, kind |-> "committed"]

\* the body arrives: store the chunk; when all are there assemble, encrypt,
\* save the share and delete the session
ChunkRequestFinish(h) ==
    /\ chunkReq[h].pc = "arrayBuffer"
    /\ LET request == chunkReq[h]
           chunks  == ChunksAfterSet(request)
       IN  /\ sessionObjects' = [sessionObjects EXCEPT ![request.session].chunks = chunks]
           /\ IF ChunkFinishReply(request).kind = "committed"
              THEN /\ \E salts \in SaltChoices(Assemble(chunks, request.totalChunks)) :
                         SaveFileShare(ChunkFileShare(request.fileId,
                                                      Assemble(chunks, request.totalChunks),
                                                      request.expiryDays, salts))
                   /\ uploadSessions' = MapDelete(uploadSessions, request.fileId)
                   /\ deleted' = deleted \ {request.fileId}
                   /\ served' = [served EXCEPT ![request.fileId] = 0]
              ELSE UNCHANGED <<inMemoryDatabase, temporaryFileStore, uploadSessions,
                               deleted, served>>
    /\ chunkReq' = [chunkReq EXCEPT ![h] = IdleChunkReq]
    /\ UNCHANGED <<now, deployVars, proxyVars, fileStore, tempCache, supaVars, bg, writes, req,
                   codecVars, chunkCalls, swept>>

\* the response goes to a caller other than the uploadFileInChunks call
ChunkFinish(h) ==
    /\ client.handler # h
    /\ ChunkRequestFinish(h)
    /\ UNCHANGED client

\* a cleanup that deletes every session, whatever its age
OldSessionsAnyAge == DOMAIN uploadSessions

\* the sessions the hourly cleanup deletes
OldSessions ==
    {f \in DOMAIN uploadSessions : sessionObjects[uploadSessions[f]].createdAt < now - HOUR}

\* the setInterval callback
SweepSessions ==
    /\ OldSessions # {}
    /\ uploadSessions' = [f \in (DOMAIN uploadSessions) \ OldSessions |-> uploadSessions[f]]
    /\ swept' = swept \cup OldSessions
    /\ UNCHANGED <<shareVars, codecVars, sessionObjects, chunkReq, chunkCalls, client>>

\* an hour passes between requests (a handler lives at most maxDuration = 300 s)
TickHour ==
    /\ now < MaxHours * (HOUR + 1)
    /\ \A h \in ChunkReqs : chunkReq[h].pc = "idle"
    /\ now' = now + HOUR + 1
    /\ UNCHANGED <<deployVars, proxyVars, localVars, supaVars, bg, writes, req, served, deleted,
                   codecVars, chunkVars>>

(***************************************************************************)
(* Next-state relations                                                    *)
(***************************************************************************)
\* a deployment without Supabase credentials
Next ==
    \/ \E f \in FileIds, t \in Tokens, file \in Files, d \in ExpiryDays, m \in MaxDownloadsVals :
          Upload(f, t, file, d, m)
    \/ CleanupExpiredFiles
    \/ \E f \in FileIds : DeleteFileShare(f)
    \/ \E f \in FileIds, t \in Tokens, file \in Files, d \in ExpiryDays, m \in MaxDownloadsVals :
          StoreFile(f, t, file, d, m)
    \/ \E f \in FileIds : RetrieveFile(f)
    \/ \E t \in Tokens : RetrieveFileByToken(t)
    \/ GetAllFiles
    \/ \E f \in FileIds, file \in Files : CacheFile(f, file)
    \/ TickShort
    \/ TickDay
    \/ Restart
    \/ \E f \in FileIds, t \in Tokens : ShareTiered(f, t)
    \/ \E f \in FileIds, t \in Tokens : ShareSupabase(f, t)
    \/ \E f \in FileIds, t \in Tokens, p \in EncryptedDataParams : DownloadPersistent(f, t, p)
    \/ \E f \in FileIds, t \in Tokens : DownloadMemory(f, t)

Spec == Init /\ [][Next]_vars

\* a deployment with Supabase credentials; its clients take the ids of a
\* share from generateFileId() and generateAccessToken(), so an upload
\* carries a pair of its own (or repeats it)
NextSupabase ==
    \/ \E p \in SharePairs, file \in Files, d \in ExpiryDays, m \in MaxDownloadsVals :
          Upload(p[1], p[2], file, d, m)
    \/ \E i \in 1..MaxUploads : BgUploadSettles(i)
    \/ \E i \in 1..MaxUploads : BgUploadTimeout(i)
    \/ \E i \in 1..MaxUploads : BgLateUploadSettles(i)
    \/ \E i \in 1..MaxUploads : BgCreateShareRecord(i)
    \/ \E t \in Tokens : DeleteShareRecord(t)
    \/ Restart
    \/ \E f \in FileIds, t \in Tokens : ShareTiered(f, t)
    \/ \E f \in FileIds, t \in Tokens : ShareTieredFailed(f, t)
    \/ \E f \in FileIds, t \in Tokens : ShareSupabase(f, t)
    \/ \E f \in FileIds, t \in Tokens : DownloadMemory(f, t)
    \/ \E r \in Reqs, f \in FileIds, t \in Tokens : DownloadMemoryStart(r, f, t)
    \/ \E r \in Reqs, f \in FileIds, t \in Tokens : DownloadSupabaseStart(r, f, t)
    \/ \E r \in Reqs : DownloadGetRecord(r)
    \/ \E r \in Reqs : DownloadGetRecordFailed(r)
    \/ \E r \in Reqs : DownloadFromStorage(r)
    \/ \E r \in Reqs : DownloadIncrement(r)

SpecSupabase == InitSupabase /\ [][NextSupabase]_vars

\* the chunked upload route of a deployment without Supabase credentials
InitChunks ==
    /\ ShareInit
    /\ supabaseConfigured = FALSE
    /\ downloadRoute = "memory"
    /\ CodecIdle

NextChunks ==
    \/ \E h \in ChunkReqs, f \in FileIds, d \in ChunkExpiryDays :
          \E i \in ChunkIndices(f) : ChunkStart(h, f, i, d)
    \/ \E h \in ChunkReqs : ChunkFinish(h)
    \/ SweepSessions
    \/ TickHour

SpecChunks == InitChunks /\ [][NextChunks]_vars

\* the same route for a client that sends its chunks one after the other
\* and asks for one day of retention (the cleanup looks at neither), with
\* its scheduling: the setInterval timer
\* keeps firing, time passes, and a request body that is awaited arrives
NextChunksSweep ==
    \/ \E f \in FileIds :
          \E i \in ChunkIndices(f) : ChunkStart(1, f, i, 1)
    \/ \E h \in ChunkReqs : ChunkFinish(h)
    \/ SweepSessions
    \/ TickHour

SpecChunksFair ==
    /\ InitChunks
    /\ [][NextChunksSweep]_vars
    /\ WF_vars(SweepSessions)
    /\ WF_vars(TickHour)
    /\ WF_vars(\E h \in ChunkReqs : ChunkFinish(h))

\* the chunkIndex and totalChunks fields a request may carry: missing, no
\* numeral, or a numeral (one of them the first index past the end)
IndexFields(fileId) ==
    {MissingField, TextField} \cup {NumberField(n) : n \in 0..totalChunksOf(fileId)}

TotalFields(fileId) == {MissingField, TextField, NumberField(totalChunksOf(fileId))}

\* the chunked upload route with requests as they may arrive off the wire
NextChunksRaw ==
    \/ \E f \in FileIds :
          \E ci \in IndexFields(f), tc \in TotalFields(f) :
              ChunkStartWith(1, f, parseInt(ci), parseInt(tc), 1)
    \/ \E h \in ChunkReqs : ChunkFinish(h)
    \/ SweepSessions
    \/ TickHour

SpecChunksRaw == InitChunks /\ [][NextChunksRaw]_vars

(***************************************************************************)
(* Codec harness: encrypt one Buffer, then decrypt the result              *)
(***************************************************************************)
RECURSIVE SeqsUpTo(_)
SeqsUpTo(n) ==
    IF n = 0 THEN {<<>>}
    ELSE LET shorter == SeqsUpTo(n - 1)
         IN  shorter \cup {Append(s, b) : s \in {t \in shorter : Len(t) = n - 1}, b \in ByteVals}

Buffers == SeqsUpTo(MaxLen)

NoResult == [ok |-> FALSE, data |-> <<>>]

CodecInit ==
    /\ ShareInit
    /\ supabaseConfigured = FALSE
    /\ downloadRoute = "memory"
    /\ buffer \in Buffers
    /\ encrypted = <<>>
    /\ decrypted = NoResult
    /\ cpc = "start"

Encrypt ==
    /\ cpc = "start"
    /\ \E salts \in SaltsFor(buffer, Salts) :
          encrypted' = encryptFileBuffer(buffer, salts)
    /\ cpc' = "encrypted"
    /\ UNCHANGED <<buffer, decrypted, shareVars, chunkVars>>

Decrypt ==
    /\ cpc = "encrypted"
    /\ decrypted' = decryptFileBuffer(encrypted)
    /\ cpc' = "decrypted"
    /\ UNCHANGED <<buffer, encrypted, shareVars, chunkVars>>

\* a ciphertext that reaches decryptFileBuffer damaged: one element of the
\* chunk list (or the whole string) emptied, the last character cut off, or
\* the first two characters (the "Salted__" header and the salt) missing
TamperKinds == {"emptyPart", "cutTail", "noHeader"}

Damaged(encryptedData, kind, k) ==
    IF kind = "cutTail" THEN SubSeq(encryptedData, 1, Len(encryptedData) - 1)
    ELSE IF kind = "noHeader" THEN SubSeq(encryptedData, 3, Len(encryptedData))
    ELSE IF startsWith(encryptedData, LBRACKET) /\ JSONparse(encryptedData).ok
    THEN LET parts == JSONparse(encryptedData).value
         IN  JSONstringify([i \in 1..Len(parts) |-> IF i = k THEN <<>> ELSE parts[i]])
    ELSE <<>>

Tamper ==
    /\ cpc = "encrypted"
    /\ Len(encrypted) > 2
    /\ \E kind \in TamperKinds, k \in 1..NumChunks(MaxLen) :
          /\ Damaged(encrypted, kind, k) # encrypted
          /\ encrypted' = Damaged(encrypted, kind, k)
    /\ cpc' = "tampered"
    /\ UNCHANGED <<buffer, decrypted, shareVars, chunkVars>>

DecryptTampered ==
    /\ cpc = "tampered"
    /\ decrypted' = decryptFileBuffer(encrypted)
    /\ cpc' = "decryptedTampered"
    /\ UNCHANGED <<buffer, encrypted, shareVars, chunkVars>>

CodecNext == Encrypt \/ Decrypt \/ Tamper \/ DecryptTampered

SpecCodec == CodecInit /\ [][CodecNext]_vars

(***************************************************************************)
(* What a caller of the deployed routes is answered, as one operator each  *)
(***************************************************************************)
\* the response of the deployed download handler when it answers without
\* waiting for Supabase; NoReply when it goes to Supabase
DownloadReply(fileId, token) ==
    IF downloadRoute = "persistent" THEN DownloadPersistentReply(fileId, token)
    ELSE IF downloadRoute = "memory" /\ (MemoryHit(fileId, token) \/ ~supabaseConfigured)
         THEN DownloadMemoryReply(fileId, token)
    ELSE IF downloadRoute = "supabase" /\ ~supabaseConfigured THEN Reply(503)
    ELSE NoReply

\* the records the local tiers hold for fileId
LocalRecords(fileId) ==
    (IF getFileShare(fileId) # Null THEN {getFileShare(fileId)} ELSE {})
    \cup (IF Has(fileStore, fileId) THEN {fileStore[fileId]} ELSE {})

\* the records for fileId in the tiers the deployed download handler reads
RouteRecords(fileId) ==
    (IF downloadRoute \in {"persistent", "memory"} /\ getFileShare(fileId) # Null
     THEN {getFileShare(fileId)} ELSE {})
    \cup (IF downloadRoute = "persistent" /\ Has(fileStore, fileId)
          THEN {fileStore[fileId]} ELSE {})

\* the rows of the shares table whose id is fileId
RowsOf(fileId) == {shares[t] : t \in {u \in DOMAIN shares : shares[u].id = fileId}}

(***************************************************************************)
(* Properties                                                              *)
(***************************************************************************)
\* C1: in every reachable state, under any interleaving of concurrent
\* downloads, every share record has downloadCount <= maxDownloads
C1_CountWithinLimit ==
    /\ \A f \in DOMAIN inMemoryDatabase :
          inMemoryDatabase[f].downloadCount <= inMemoryDatabase[f].maxDownloads
    /\ \A f \in DOMAIN temporaryFileStore :
          temporaryFileStore[f].data.downloadCount <= temporaryFileStore[f].data.maxDownloads
    /\ \A f \in DOMAIN fileStore :
          fileStore[f].downloadCount <= fileStore[f].maxDownloads
    /\ \A t \in DOMAIN shares :
          shares[t].download_count <= shares[t].max_downloads

\* C2: of the concurrent downloads of a share with maxDownloads = 1 that
\* carry its token, exactly one is answered with the payload and the others
\* with 429: no two of them are past the limit check, holding the payload
\* they will send
C2_OneWinner ==
    \A r \in Reqs, q \in Reqs :
        ( /\ r # q
          /\ req[r].pc = "increment"
          /\ req[q].pc = "increment"
          /\ req[r].token = req[q].token
          /\ req[r].fileId = req[q].fileId
          /\ Has(shares, req[r].token)
          /\ shares[req[r].token].id = req[r].fileId )
        => shares[req[r].token].max_downloads # 1

\* C3: once the expiry instant of a share has passed, a download with its
\* token is answered 410 Expired, whatever its remaining downloads
C3_ExpiredIsRefused ==
    \A f \in FileIds, t \in Tokens :
        \A rec \in RouteRecords(f) :
            (rec.accessToken = t /\ now > rec.expiresAt /\ DownloadReply(f, t) # NoReply)
            => DownloadReply(f, t).status = 410

\* some tier holds a record for fileId whose accessToken is token
TokenOpens(fileId, token) ==
    \/ \E rec \in LocalRecords(fileId) : rec.accessToken = token
    \/ \E row \in RowsOf(fileId) : row.access_token = token

\* C4: no metadata read and no download hands share data to a caller whose
\* token is not the accessToken of the share that its fileId addresses
C4_TokenGuardsData ==
    /\ \A f \in FileIds, t \in Tokens :
          /\ ShareTieredReply(f, t).kind = "meta" => TokenOpens(f, t)
          /\ ShareSupabaseReply(f, t).kind = "meta" => TokenOpens(f, t)
          /\ DownloadReply(f, t).kind = "file" => TokenOpens(f, t)
    /\ \A r \in Reqs :
          req[r].pc = "increment" => TokenOpens(req[r].fileId, req[r].token)

\* C5: in a run of downloads of a share with maxDownloads = m, one after
\* the other with the correct token, the first m are answered with the
\* payload and every later one with 429
C5_QuotaInSequence ==
    \A f \in FileIds, t \in Tokens :
        \A rec \in RouteRecords(f) :
            (rec.accessToken = t /\ ~(now > rec.expiresAt) /\ DownloadReply(f, t) # NoReply)
            => IF served[f] >= rec.maxDownloads
               THEN DownloadReply(f, t).status = 429
               ELSE DownloadReply(f, t).kind = "file"

\* C6: when the primary record of a share has been deleted while the
\* temporary store still holds its copy, a read is answered NotFound and
\* not from the stale copy
C6_NoStaleCopy ==
    \A f \in FileIds :
        (f \in deleted /\ ~Has(inMemoryDatabase, f) /\ Has(temporaryFileStore, f))
        => /\ getFileShare(f) = Null
           /\ \A t \in Tokens : ShareTieredReply(f, t).kind # "meta"

\* C7: after a delete of fileId has returned true, every metadata read and
\* every download for fileId is answered 404; a delete of a fileId without
\* a record leaves the store as it is
C7_DeletedStaysGone ==
    /\ \A f \in deleted, t \in Tokens :
          /\ ShareTieredReply(f, t).status = 404
          /\ DownloadReply(f, t) # NoReply => DownloadReply(f, t).status = 404
    /\ \A f \in FileIds :
          ~Has(inMemoryDatabase, f) => MapDelete(inMemoryDatabase, f) = inMemoryDatabase

\* the payloads whose encryption is the given ciphertext
PayloadsOf(ciphertext) ==
    {file.bytes : file \in {x \in Files : \E salts \in SaltsFor(x.bytes, Salts) :
                                              encryptFileBuffer(x.bytes, salts) = ciphertext}}

\* the ciphertexts the local tiers hold for fileId
CiphertextsOf(fileId) ==
    (IF getFileShare(fileId) # Null THEN {getFileShare(fileId).fileData} ELSE {})
    \cup (IF Has(fileStore, fileId) THEN {fileStore[fileId].encryptedData} ELSE {})

\* C8: the bytes a download is answered with are the payload that was
\* published, byte for byte
C8_DownloadIsPayload ==
    \A f \in FileIds, t \in Tokens :
        DownloadReply(f, t).kind = "file"
        => \E ciphertext \in CiphertextsOf(f) : DownloadReply(f, t).data \in PayloadsOf(ciphertext)

\* C9: decryptFileBuffer(encryptFileBuffer(x)) equals x byte for byte, for
\* every payload length from 0 to above the chunking threshold
C9_RoundTrip ==
    cpc = "decrypted" => (decrypted.ok /\ decrypted.data = buffer)

C9_Witness ==
    /\ cpc = "decrypted"
    /\ Len(buffer) = CHUNK_THRESHOLD
    /\ decrypted.data = buffer

\* C10: above the threshold the ciphertext is the ordered list of the
\* independently encrypted CHUNK_SIZE slices that cover the payload once;
\* the decoder takes the list branch exactly for such a ciphertext; and the
\* decoded bytes are those of the unchunked round trip
C10_ChunkedLayout ==
    cpc = "decrypted" =>
        /\ startsWith(encrypted, LBRACKET) <=> (Len(buffer) > CHUNK_THRESHOLD)
        /\ Len(buffer) > CHUNK_THRESHOLD =>
              LET parsed == JSONparse(encrypted)
              IN  /\ parsed.ok
                  /\ Len(parsed.value) = NumChunks(Len(buffer))
                  /\ \A k \in 1..Len(parsed.value) :
                        decryptWhole(parsed.value[k]) =
                            SubSeq(buffer, (k - 1) * CHUNK_SIZE + 1,
                                   Min(k * CHUNK_SIZE, Len(buffer)))
        /\ \A salt \in Salts : decrypted.data = decryptWhole(encryptWhole(buffer, salt))

C10_Witness ==
    /\ cpc = "decrypted"
    /\ Len(buffer) > CHUNK_THRESHOLD
    /\ startsWith(encrypted, LBRACKET)
    /\ Len(JSONparse(encrypted).value) >= 3
    /\ decrypted.data = buffer

RECURSIVE ConcatParts(_, _)
\* the parts 0..n-1 of the file uploaded as fileId, one after the other
ConcatParts(fileId, n) ==
    IF n = 0 THEN <<>>
    ELSE ConcatParts(fileId, n - 1) \o PartBytes(fileId, n - 1)

\* C12: the bytes assembled when a session completes are the parts in the
\* order of their indices, whatever the order in which they arrived
C12_OrderIndependent ==
    \A f \in DOMAIN inMemoryDatabase :
        /\ decryptFileBuffer(inMemoryDatabase[f].fileData).ok
        /\ decryptFileBuffer(inMemoryDatabase[f].fileData).data
               = ConcatParts(f, totalChunksOf(f))

C12_Witness ==
    /\ Has(inMemoryDatabase, "f2")
    /\ decryptFileBuffer(inMemoryDatabase["f2"].fileData).data = ConcatParts("f2", 3)
    /\ \E o \in DOMAIN sessionObjects :
          /\ Len(sessionObjects[o].chunks) = 3
          /\ sessionObjects[o].chunks[1] = [index |-> 2, buf |-> PartBytes("f2", 2)]
          /\ sessionObjects[o].chunks[2] = [index |-> 0, buf |-> PartBytes("f2", 0)]
          /\ sessionObjects[o].chunks[3] = [index |-> 1, buf |-> PartBytes("f2", 1)]

\* the distinct indices a chunk Map holds
DistinctIndices(chunks) == {chunks[k].index : k \in 1..Len(chunks)}

\* C13: a chunk request is answered Committed exactly when its chunk makes
\* the number of distinct indices of its session equal to totalChunks, and
\* Pending otherwise
C13_CompleteExactlyOnce ==
    \A h \in ChunkReqs :
        chunkReq[h].pc = "arrayBuffer" =>
            LET request == chunkReq[h]
                session == sessionObjects[request.session]
                before  == DistinctIndices(session.chunks)
                after   == before \cup {request.chunkIndex}
            IN  IF /\ Cardinality(after) = session.totalChunks
                   /\ Cardinality(before) < session.totalChunks
                THEN ChunkFinishReply(request).kind = "committed"
                ELSE ChunkFinishReply(request).kind = "pending"

\* C14: once the cleanup has discarded the session of a fileId, no further
\* chunk request for that fileId creates a new session
C14_NoSilentRestart ==
    \A f \in swept : ~Has(uploadSessions, f)

\* C15: concurrent chunk handlers of one fileId hold one and the same
\* session object, and a handler that resumes after reading its body stores
\* its chunk in the session registered for its fileId: no chunk goes to an
\* object that uploadSessions no longer holds
C15_WritesRegisteredSession ==
    /\ \A h \in ChunkReqs :
          (chunkReq[h].pc = "arrayBuffer" /\ chunkReq[h].fileId \notin swept)
          => /\ Has(uploadSessions, chunkReq[h].fileId)
             /\ uploadSessions[chunkReq[h].fileId] = chunkReq[h].session
    /\ \A h \in ChunkReqs, g \in ChunkReqs :
          ( /\ chunkReq[h].pc = "arrayBuffer"
            /\ chunkReq[g].pc = "arrayBuffer"
            /\ chunkReq[h].fileId = chunkReq[g].fileId )
          => chunkReq[h].session = chunkReq[g].session

\* C16: an upload is answered as committed only when the record is in the
\* most durable backend: while the background chain of an answered upload
\* has not finished, the Supabase object and row of that upload exist
C16_CommittedAfterPrimaryWrite ==
    supabaseConfigured =>
        \A i \in DOMAIN bg :
            bg[i].stage # "done" =>
                /\ Has(storage, ObjectKey(bg[i].fileId))
                /\ Has(shares, bg[i].accessToken)
                /\ shares[bg[i].accessToken].id = bg[i].fileId

\* how far a background chain has come
StageRank(stage) ==
    IF stage = "upload" THEN 0
    ELSE IF stage \in {"createRecord", "lateUpload"} THEN 1
    ELSE 2

\* a step of the background chain i
ChainStep(i) == i \in DOMAIN bg /\ i \in DOMAIN bg' /\ bg'[i] # bg[i]

\* C17: a failure or a timeout of the background propagation leaves the
\* record the upload saved and answered with as it is, an upload never
\* waits for a propagation, and every propagation step is taken once: each
\* step of a chain moves it forward towards its end
C17_PropagationFailOpen ==
    /\ [](writes < MaxUploads =>
              ENABLED (\E p \in SharePairs, file \in Files, d \in ExpiryDays,
                          m \in MaxDownloadsVals : Upload(p[1], p[2], file, d, m)))
    /\ [][\A i \in 1..MaxUploads :
              ChainStep(i) =>
                  /\ StageRank(bg'[i].stage) > StageRank(bg[i].stage)
                  /\ UNCHANGED <<inMemoryDatabase, temporaryFileStore>>]_vars

C17_Witness ==
    \E i \in DOMAIN bg :
        /\ bg[i].stage = "done"
        /\ shares = EmptyMap
        /\ \E f \in DOMAIN inMemoryDatabase : inMemoryDatabase[f].accessToken \in Tokens

\* README, File Limits: Expiry 1-30 days, Max Downloads 1-100
EXPIRY_DAYS_LIMIT == 30
MAX_DOWNLOADS_LIMIT == 100

\* C18: no share record and no upload session exists whose expiry lies
\* outside 1..30 days or whose maxDownloads lies outside 1..100: a request
\* with such parameters is refused and creates nothing
C18_ParametersWithinLimits ==
    /\ \A f \in DOMAIN inMemoryDatabase :
          /\ \E d \in 1..EXPIRY_DAYS_LIMIT :
                inMemoryDatabase[f].expiresAt = inMemoryDatabase[f].uploadedAt + d * DAY
          /\ inMemoryDatabase[f].maxDownloads \in 1..MAX_DOWNLOADS_LIMIT
    /\ \A o \in DOMAIN sessionObjects :
          /\ sessionObjects[o].expiryDays \in 1..EXPIRY_DAYS_LIMIT
          /\ sessionObjects[o].maxDownloads \in 1..MAX_DOWNLOADS_LIMIT

\* the access tokens of the records that the tiers hold for fileId
TokensOf(fileId) ==
    {rec.accessToken : rec \in LocalRecords(fileId)}
    \cup {row.access_token : row \in RowsOf(fileId)}

\* some tier holds a record for fileId
RecordExists(fileId) == TokensOf(fileId) # {} \/ getCachedFile(fileId) # Null

\* C19: a metadata read is answered 403 exactly when a record for the
\* fileId exists and the token is not its accessToken, 404 exactly when no
\* tier holds a record for the fileId, and with the record summary only
\* for an existing record and its own token
C19_MetadataOutcome ==
    \A f \in FileIds, t \in Tokens :
        /\ ShareTieredReply(f, t).status = 403 <=> (TokensOf(f) # {} /\ t \notin TokensOf(f))
        /\ ShareTieredReply(f, t).status = 404 <=> ~RecordExists(f)
        /\ ShareTieredReply(f, t).kind = "meta" => t \in TokensOf(f)

\* this step sends the payload of fileId
PayloadSent(fileId) == served'[fileId] = served[fileId] + 1

\* this step adds one to the downloadCount of a record of fileId
CountClaimed(fileId) ==
    \/ /\ Has(inMemoryDatabase, fileId) /\ Has(inMemoryDatabase', fileId)
       /\ inMemoryDatabase'[fileId].downloadCount = inMemoryDatabase[fileId].downloadCount + 1
    \/ /\ Has(temporaryFileStore, fileId) /\ Has(temporaryFileStore', fileId)
       /\ temporaryFileStore'[fileId].data.downloadCount
             = temporaryFileStore[fileId].data.downloadCount + 1
    \/ /\ Has(fileStore, fileId) /\ Has(fileStore', fileId)
       /\ fileStore'[fileId].downloadCount = fileStore[fileId].downloadCount + 1
    \/ \E t \in DOMAIN shares :
          /\ shares[t].id = fileId /\ Has(shares', t)
          /\ shares'[t].download_count = shares[t].download_count + 1

\* C20: a download that sends the payload adds exactly one to the
\* downloadCount of the share, and a download that is refused or fails
\* adds nothing
C20_ClaimWithPayload ==
    [][\A f \in FileIds :
          /\ PayloadSent(f) => CountClaimed(f)
          /\ (served'[f] = served[f] /\ served[f] < MaxServed) => ~CountClaimed(f)]_vars

\* the fields of a committed record that are written once
Frozen(fs) ==
    <<fs.fileName, fs.fileSize, fs.fileType, fs.fileData, fs.accessToken,
      fs.expiresAt, fs.maxDownloads>>

\* ... of a StoredFile of the persistent store
FrozenStored(pf) ==
    <<pf.fileName, pf.fileSize, pf.fileType, pf.encryptedData, pf.accessToken,
      pf.expiresAt, pf.maxDownloads>>

\* C21: once a share is committed, no operation (publish, metadata query,
\* download, caching, cleanup) changes its fileName, fileSize, mimeType,
\* ciphertext, accessToken, expiresAt or maxDownloads: a record that a step
\* keeps under its fileId keeps these fields
C21_WriteOnce ==
    [][\A f \in FileIds :
          /\ (Has(inMemoryDatabase, f) /\ Has(inMemoryDatabase', f))
                => Frozen(inMemoryDatabase'[f]) = Frozen(inMemoryDatabase[f])
          /\ (Has(fileStore, f) /\ Has(fileStore', f))
                => FrozenStored(fileStore'[f]) = FrozenStored(fileStore[f])]_vars

\* C22: for every fileId, downloadCount is 0 when the record is committed
\* and no step (publish, metadata, download, delete, cleanup) lowers it
C22_CountMonotone ==
    [][\A f \in FileIds :
          /\ (~Has(inMemoryDatabase, f) /\ Has(inMemoryDatabase', f))
                => inMemoryDatabase'[f].downloadCount = 0
          /\ (Has(inMemoryDatabase, f) /\ Has(inMemoryDatabase', f))
                => inMemoryDatabase'[f].downloadCount >= inMemoryDatabase[f].downloadCount
          /\ (Has(fileStore, f) /\ Has(fileStore', f))
                => fileStore'[f].downloadCount >= fileStore[f].downloadCount]_vars

\* C23: in every reachable state no two live share records hold the same
\* accessToken, whatever tokens the callers of publish supply
C23_TokenUnique ==
    \A f \in FileIds, g \in FileIds :
        (f # g /\ getFileShare(f) # Null /\ getFileShare(g) # Null
              /\ ~isExpired(getFileShare(f).expiresAt)
              /\ ~isExpired(getFileShare(g).expiresAt))
            => getFileShare(f).accessToken # getFileShare(g).accessToken

\* the metadata route reports the share as expired
ReportsExpired(resp) ==
    resp.status = 410 \/ (resp.kind = "meta" /\ resp.meta.isExpired)

\* C24: for a record whose expiresAt has passed (also one committed with
\* an expiresAt already in the past), a metadata read with its token
\* reports it as expired and a download with its token is answered 410
C24_ExpiredStatus ==
    \A f \in FileIds, t \in Tokens :
        ( /\ LocalRecords(f) # {}
          /\ \A rec \in LocalRecords(f) : rec.accessToken = t /\ now > rec.expiresAt )
        => /\ ReportsExpired(ShareTieredReply(f, t))
           /\ (RouteRecords(f) # {} /\ DownloadReply(f, t) # NoReply)
                 => DownloadReply(f, t).status = 410

\* a step of the four-tier metadata route
MetadataRead == \E f \in FileIds, t \in Tokens : ShareTiered(f, t)

\* C25 as stated: a metadata read leaves every record in every tier
\* unchanged
C25_ReadChangesNothing ==
    [][MetadataRead => UNCHANGED <<localVars, supaVars>>]_vars

\* C25: a metadata read changes no field of any record in any tier and
\* adds none; the only change it makes is to drop an entry whose expiry
\* (persistent store, temporary cache) or TTL (temporary file store) has
\* passed
C25_ReadOnlyDropsExpired ==
    [][MetadataRead =>
          /\ UNCHANGED <<inMemoryDatabase, supaVars>>
          /\ \A g \in FileIds :
                /\ Has(fileStore', g) => Has(fileStore, g) /\ fileStore'[g] = fileStore[g]
                /\ Has(tempCache', g) => Has(tempCache, g) /\ tempCache'[g] = tempCache[g]
                /\ Has(temporaryFileStore', g)
                      => Has(temporaryFileStore, g) /\ temporaryFileStore'[g] = temporaryFileStore[g]
                /\ (Has(fileStore, g) /\ ~Has(fileStore', g)) => now > fileStore[g].expiresAt
                /\ (Has(tempCache, g) /\ ~Has(tempCache', g)) => now > tempCache[g].expiresAt
                /\ (Has(temporaryFileStore, g) /\ ~Has(temporaryFileStore', g)) => ~TempLive(g)]_vars

\* a metadata read is about to drop an expired entry of the persistent
\* store while another tier holds a live entry that it has to keep
C25_Witness ==
    \E f \in FileIds, t \in Tokens :
        /\ Has(fileStore, f) /\ now > fileStore[f].expiresAt
        /\ getCachedFile(f) # Null
        /\ ENABLED <<ShareTiered(f, t)>>_vars

\* the statuses that surface a failure of the backend to the caller
ServiceUnavailable == {500, 503}

\* C26: when the read of the primary backend (the shares table) fails, the
\* metadata route and the download handlers answer with a server error;
\* the failure is not answered from a lower tier and not reported as 404
C26_PrimaryFailureSurfaced ==
    supabaseConfigured =>
        /\ \A f \in FileIds, t \in Tokens :
              (\E rec \in LocalRecords(f) : rec.accessToken = t)
                  => ShareTieredFailedReply(f, t).status \in ServiceUnavailable
        /\ \A r \in Reqs :
              req[r].pc = "getShareRecord"
                  => DownloadFailedReply(req[r]).status \in ServiceUnavailable

\* C27: a read goes through the tiers in one fixed order, the most durable
\* first, and is answered by the first tier that holds the record: while
\* the shares table holds the row of a share, its metadata is answered
\* from that row and its download is not answered from a lower tier
C27_DurableTierFirst ==
    \A f \in FileIds, t \in Tokens :
        (supabaseConfigured /\ Has(shares, t) /\ shares[t].id = f)
        => /\ ShareTieredReply(f, t) \in {Reply(410), ReplyMeta(MetaOfRow(f, shares[t]))}
           /\ DownloadReply(f, t) = NoReply

\* the metadata route answers from the copy in the temporary cache
AnsweredFromCache(fileId, token) ==
    /\ Has(tempCache, fileId)
    /\ ShareTieredReply(fileId, token) = ReplyMeta(MetaOfCached(fileId, tempCache[fileId]))

\* the record that the persistent store holds for fileId can no longer be
\* downloaded: its expiry has passed or its downloads are used up
DurableCopySpent(fileId) ==
    /\ Has(fileStore, fileId)
    /\ \/ now > fileStore[fileId].expiresAt
       \/ fileStore[fileId].downloadCount >= fileStore[fileId].maxDownloads

\* C28: a copy in an ephemeral tier is not returned once the TTL of that
\* tier has passed (15 minutes in the temporary cache, 24 hours in the
\* temporary file store), and not returned when the durable copy is
\* expired, exhausted or deleted
C28_EphemeralCopyBounded ==
    \A f \in FileIds :
        /\ getCachedFile(f) # Null => now - tempCache[f].createdAt <= CACHE_TTL
        /\ (~Has(inMemoryDatabase, f) /\ getFileShare(f) # Null)
              => now - temporaryFileStore[f].timestamp < TEMP_STORE_TTL
        /\ DurableCopySpent(f) => \A t \in Tokens : ~AnsweredFromCache(f, t)
        /\ (f \in deleted /\ ~Has(inMemoryDatabase, f)) => getFileShare(f) = Null

\* the clock of the model can still advance by an hour
ClockRuns == now < MaxHours * (HOUR + 1)

\* C29: every upload session that is not completed is eventually discarded
\* by the cleanup timer (which keeps firing), and the timer never discards
\* a session that is younger than one hour
C29_SweepDiscardsOldOnly ==
    /\ \A f \in FileIds :
          (Has(uploadSessions, f) /\ ClockRuns) ~> ~Has(uploadSessions, f)
    /\ [][SweepSessions =>
             \A f \in (DOMAIN uploadSessions) \ (DOMAIN uploadSessions') :
                 now - sessionObjects[uploadSessions[f]].createdAt > HOUR]_vars

\* the timer has discarded a session that still lacked chunks
C29_Witness ==
    /\ swept # {}
    /\ \E o \in DOMAIN sessionObjects :
          /\ Len(sessionObjects[o].chunks) < sessionObjects[o].totalChunks
          /\ now - sessionObjects[o].createdAt > HOUR
          /\ \A f \in DOMAIN uploadSessions : uploadSessions[f] # o

\* chunkIndex and totalChunks are numbers and chunkIndex is one of
\* 0..totalChunks-1
WellFormedChunk(chunkIndex, totalChunks) ==
    /\ chunkIndex # NaN
    /\ totalChunks # NaN
    /\ chunkIndex \in 0..(totalChunks - 1)

\* C30: a chunk request whose chunkIndex or totalChunks is missing or not a
\* number, or whose chunkIndex is outside 0..totalChunks-1, is answered
\* with an input error before a session is created or changed: no handler
\* gets to its session with such a request and no session stores such a
\* chunk
C30_MalformedChunkRejected ==
    /\ \A h \in ChunkReqs :
          chunkReq[h].pc = "arrayBuffer"
              => WellFormedChunk(chunkReq[h].chunkIndex, chunkReq[h].totalChunks)
    /\ \A o \in DOMAIN sessionObjects :
          \A k \in DOMAIN sessionObjects[o].chunks :
              WellFormedChunk(sessionObjects[o].chunks[k].index, sessionObjects[o].totalChunks)

\* C31: after cleanupExpiredFiles() has returned, getFileShare and
\* getAllFileShares give no expired share, and the count it returned is the
\* number of shares it removed
C31_CleanupRemovesExpired ==
    [][CleanupExpiredFiles =>
          /\ \A f \in FileIds :
                getFileShare(f)' # Null => ~(isExpired(getFileShare(f).expiresAt))'
          /\ ExpiredListed' = {}
          /\ cleanupExpiredFilesCount
                = Cardinality((DOMAIN inMemoryDatabase) \ (DOMAIN inMemoryDatabase'))]_vars

\* the persistent store holds a record for fileId whose expiresAt has passed
StoredExpired(fileId) == Has(fileStore, fileId) /\ now > fileStore[fileId].expiresAt

\* C32: in the persistent store the first access after a record's
\* expiresAt (retrieveFile, canDownload, retrieveFileByToken reaching the
\* record, getAllFiles) does not return the record and removes it, and a
\* removed record comes back only through storeFile
C32_ExpiredRemovedOnAccess ==
    /\ [](/\ \A f \in FileIds :
                StoredExpired(f)
                    => /\ retrieveFile(f) = Null
                       /\ ~canDownload(f)
                       /\ ~Has(StoreAfterAccess(f), f)
                       /\ ~Has(StoreAfterGetAll, f)
          /\ \A t \in Tokens :
                (FirstWithToken(t) # Null /\ now > FirstWithToken(t).expiresAt)
                    => /\ retrieveFileByToken(t) = Null
                       /\ ~Has(StoreAfterTokenAccess(t), FirstWithToken(t).fileId))
    /\ [][\A f \in FileIds :
             (~Has(fileStore, f) /\ Has(fileStore', f)) => writes' = writes + 1]_vars

\* a token lookup is about to reach an expired record while the store holds
\* a second record
C32_Witness ==
    \E t \in Tokens :
        /\ FirstWithToken(t) # Null
        /\ now > FirstWithToken(t).expiresAt
        /\ Cardinality(DOMAIN fileStore) = 2
        /\ ENABLED <<RetrieveFileByToken(t)>>_vars

\* C33: the background chain of a publish goes on to createShareRecord
\* only when the storage upload of that publish has succeeded, that is has
\* written its object; after a failed upload or a timeout createShareRecord
\* is not called
C33_RecordAfterUpload ==
    [][\A i \in 1..MaxUploads :
          (i \in DOMAIN bg /\ i \in DOMAIN bg')
          => /\ (bg[i].stage = "upload" /\ bg'[i].stage = "createRecord")
                   => /\ ~Has(storage, ObjectKey(bg[i].fileId))
                      /\ Has(storage', ObjectKey(bg[i].fileId))
             /\ bg[i].stage = "lateUpload" => bg'[i].stage # "createRecord"]_vars

\* every chunk of the session object is there
SessionComplete(o) ==
    /\ Len(sessionObjects[o].chunks) = sessionObjects[o].totalChunks
    /\ ~MissingChunk(sessionObjects[o].chunks, sessionObjects[o].totalChunks)

\* C34: an upload session commits at most one share record, whatever the
\* interleaving of the chunk requests for its fileId and also when a chunk
\* index arrives twice: no handler saves a share for a session whose chunks
\* were complete, and therefore saved, before
C34_OneCommitPerSession ==
    [][\A h \in ChunkReqs :
          (ChunkFinish(h) /\ ChunkFinishReply(chunkReq[h]).kind = "committed")
              => ~SessionComplete(chunkReq[h].session)]_vars

\* C35: the record a chunked upload commits carries the retention (with the
\* file name, size, token and download limit) fixed when its session was
\* created, and completion is tested against the session's totalChunks;
\* what later chunk requests send changes neither
C35_SessionValuesCommitted ==
    [][\A h \in ChunkReqs :
          (ChunkFinish(h) /\ ChunkFinishReply(chunkReq[h]).kind = "committed")
              => LET session == sessionObjects[chunkReq[h].session]
                     share   == inMemoryDatabase'[chunkReq[h].fileId]
                 IN  /\ share.expiresAt = now + session.expiryDays * DAY
                     /\ share.accessToken = session.accessToken
                     /\ share.maxDownloads = session.maxDownloads
                     /\ chunkReq[h].totalChunks = session.totalChunks]_vars

\* the record the deployed download handler checks for (fileId, token)
FetchRecord(fileId, token) ==
    IF downloadRoute = "persistent" /\ PersistentHit(fileId, token)
    THEN fileStore[fileId]
    ELSE getFileShare(fileId)

\* a summary and the download that follows it agree
FetchAgrees(summary, resp, record) ==
    summary.kind = "meta"
        => /\ summary.meta.canDownload <=> resp.kind = "file"
           /\ record # Null
                => /\ summary.meta.downloadCount = record.downloadCount
                   /\ summary.meta.maxDownloads = record.maxDownloads

\* the metadata read for (fileId, token) leaves every store as it is
ReadKeepsStores(fileId, token) ==
    LET look == LocalTiersLookup(fileId, token)
    IN  SupabaseTierHit(token)
        \/ (look.store = fileStore /\ look.cache = tempCache
            /\ look.temp = temporaryFileStore)

\* C36: when the metadata read reports canDownload = true for (fileId, token)
\* the download asked next, nothing in between and the clock where it was,
\* succeeds, when it reports false that download is denied, and the
\* downloadCount and maxDownloads reported are those of the record the
\* download checks
C36_MetadataPredictsFetch ==
    /\ [](\A f \in FileIds, t \in Tokens :
             ReadKeepsStores(f, t)
                 => FetchAgrees(ShareTieredReply(f, t), DownloadReply(f, t),
                                FetchRecord(f, t)))
    /\ [][\A f \in FileIds, t \in Tokens :
             ShareTiered(f, t)
                 => FetchAgrees(ShareTieredReply(f, t), DownloadReply(f, t)',
                                FetchRecord(f, t)')]_vars

\* C37: with Supabase configured the object key a download asks the
\* storage for is the key the upload of the same share wrote, the key of the
\* row's fileId, so a share that was uploaded and recorded can be fetched
\* through the Supabase download route
C37_SameObjectKey ==
    [][\A r \in Reqs :
          (/\ req[r].pc = "getShareRecord" /\ req'[r].pc = "download"
           /\ req[r].fileId = shares[req[r].token].id)
              => req'[r].key = ObjectKey(req[r].fileId)]_vars

\* the in-memory database and the temporary store under the operations
\* that write them: saveFileShare (the upload route), updateDownloadCount,
\* the downloads, deleteFileShare and the cleanup, while days pass and the
\* instance is recycled
NextStores ==
    \/ \E f \in FileIds, t \in Tokens, file \in Files, d \in ExpiryDays, m \in MaxDownloadsVals :
          Upload(f, t, file, d, m)
    \/ \E f \in FileIds : UpdateDownloadCount(f)
    \/ \E f \in FileIds, t \in Tokens : DownloadMemory(f, t)
    \/ \E f \in FileIds, t \in Tokens : DownloadPersistent(f, t, <<>>)
    \/ CleanupExpiredFiles
    \/ \E f \in FileIds : DeleteFileShare(f)
    \/ TickDay
    \/ Restart

SpecStores == Init /\ [][NextStores]_vars

\* C38: a fileId that is in the in-memory database and in the temporary
\* store has the same downloadCount in both, whatever saveFileShare,
\* updateDownloadCount, the downloads and deleteFileShare did before
C38_SameDownloadCount ==
    \A f \in FileIds :
        (Has(inMemoryDatabase, f) /\ Has(temporaryFileStore, f))
            => inMemoryDatabase[f].downloadCount = temporaryFileStore[f].data.downloadCount

\* a record in both stores after two increments, one of them by a download
C38_Witness ==
    \E f \in FileIds :
        /\ Has(inMemoryDatabase, f) /\ Has(temporaryFileStore, f)
        /\ inMemoryDatabase[f].downloadCount = 2
        /\ served[f] = 1

(***************************************************************************)
(* uploadFileInChunks: the browser sends the chunks of one file, one       *)
(* request after the other, to POST /api/upload-chunk                      *)
(***************************************************************************)
\* file.size of the files handed to uploadFileInChunks
FileSizes == {0, CHUNK_SIZE, CHUNK_SIZE + 1, 2 * CHUNK_SIZE + 1}

\* uploadFileInChunks(file, config, onProgress) is called:
\* totalChunks = Math.ceil(file.size / CHUNK_SIZE), chunkIndex = 0
ClientCall(fileId, size) ==
    /\ client.pc = "idle"
    /\ client' = [NoClient EXCEPT !.pc = "loop", !.fileId = fileId,
                                  !.totalChunks = NumChunks(size)]
    /\ UNCHANGED <<shareVars, codecVars, uploadSessions, sessionObjects, chunkReq,
                   chunkCalls, swept>>

\* the loop body up to `await uploadChunk(chunkFormData)`: the request for
\* chunk chunkIndex reaches the route
ClientSend(h) ==
    /\ client.pc = "loop"
    /\ client.chunkIndex < client.totalChunks
    /\ ChunkRequestStart(h, client.fileId, client.chunkIndex, client.totalChunks, 1)
    /\ client' = [client EXCEPT !.pc = "await", !.handler = h]

\* xhr.onload: a 2xx status resolves ok and the loop goes on with the next
\* index, any other status makes the call return the error
ClientReceive ==
    /\ client.pc = "await"
    /\ client.handler # 0
    /\ ChunkRequestFinish(client.handler)
    /\ LET resp == ChunkFinishReply(chunkReq[client.handler])
       IN  client' =
              IF resp.status >= 200 /\ resp.status < 300
              THEN [client EXCEPT !.pc = "loop", !.handler = 0,
                                  !.chunkIndex = @ + 1,
                                  !.committed = (resp.kind = "committed")]
              ELSE [client EXCEPT !.pc = "returned", !.handler = 0, !.ok = FALSE]

\* xhr.onerror / xhr.ontimeout: the call returns the error; the request may
\* still be handled by the route
ClientXhrFails ==
    /\ client.pc = "await"
    /\ client' = [client EXCEPT !.pc = "returned", !.handler = 0, !.ok = FALSE]
    /\ UNCHANGED <<shareVars, codecVars, uploadSessions, sessionObjects, chunkReq,
                   chunkCalls, swept>>

\* the loop condition fails: return { ok: true }
ClientReturn ==
    /\ client.pc = "loop"
    /\ client.chunkIndex >= client.totalChunks
    /\ client' = [client EXCEPT !.pc = "returned", !.ok = TRUE]
    /\ UNCHANGED <<shareVars, codecVars, uploadSessions, sessionObjects, chunkReq,
                   chunkCalls, swept>>

NextClient ==
    \/ \E f \in FileIds, size \in FileSizes : ClientCall(f, size)
    \/ \E h \in ChunkReqs : ClientSend(h)
    \/ ClientReceive
    \/ ClientXhrFails
    \/ ClientReturn
    \/ \E h \in ChunkReqs : ChunkFinish(h)
    \/ SweepSessions
    \/ TickHour

SpecClient == InitChunks /\ [][NextClient]_vars

\* C39: uploadFileInChunks sends the chunks one at a time in increasing
\* order, returns the error of the first chunk the server turns away, and
\* returns ok = true only after every chunk 0..totalChunks-1 was accepted
\* and the last one made the server commit the share, for every file size
\* including 0
C39_OkMeansCommitted ==
    /\ client.pc = "await"
          => /\ chunkReq[client.handler].pc = "arrayBuffer"
             /\ chunkReq[client.handler].chunkIndex = client.chunkIndex
    /\ client.pc = "returned"
          => IF client.ok
             THEN client.chunkIndex = client.totalChunks /\ client.committed
             ELSE client.chunkIndex < client.totalChunks

(***************************************************************************)
(* proxy: CORS and security headers, preflight, rate limit                 *)
(***************************************************************************)
\* 60 * 1000 ms, in minutes
RATE_LIMIT_WINDOW == 1
RATE_LIMIT_MAX_REQUESTS == 100

\* minutes that pass while the proxy is watched
MaxMinutes == 3
\* requests counted beyond RATE_LIMIT_MAX_REQUESTS in one window
MaxOver == 2

\* the x-forwarded-for and cf-connecting-ip headers of a request ("" when
\* the header is missing)
RequestHeaders ==
    { [forwardedFor |-> "a", connectingIp |-> "b"],
      [forwardedFor |-> "",  connectingIp |-> "a"],
      [forwardedFor |-> "",  connectingIp |-> ""] }

Pathnames == {"/api/upload", "/api/share"}
Methods == {"GET", "POST", "OPTIONS"}

getRateLimitKey(headers) ==
    IF headers.forwardedFor # "" THEN headers.forwardedFor
    ELSE IF headers.connectingIp # "" THEN headers.connectingIp
    ELSE "unknown"

RateLimitKeys == {getRateLimitKey(h) : h \in RequestHeaders}

\* !limit || now > limit.resetTime
WindowOver(key) ==
    ~Has(rateLimitStore, key) \/ now > rateLimitStore[key].resetTime

\* a limiter that lets one request more through
checkRateLimitLoose(key) ==
    WindowOver(key) \/ rateLimitStore[key].count + 1 <= RATE_LIMIT_MAX_REQUESTS + 1

\* checkRateLimit: the value returned
checkRateLimit(key) ==
    WindowOver(key) \/ rateLimitStore[key].count + 1 <= RATE_LIMIT_MAX_REQUESTS

\* checkRateLimit: rateLimitStore after the call
StoreAfterCheck(key) ==
    IF WindowOver(key)
    THEN MapSet(rateLimitStore, key,
                [count |-> 1, resetTime |-> now + RATE_LIMIT_WINDOW])
    ELSE [rateLimitStore EXCEPT ![key].count = @ + 1]

\* the request reaches checkRateLimit
Limited(pathname, method) == method # "OPTIONS" /\ pathname # "/api/upload"

\* the status proxy answers with; 0 when it hands the request on
\* (NextResponse.next())
ProxyStatus(headers, pathname, method) ==
    IF method = "OPTIONS" THEN 200
    ELSE IF pathname # "/api/upload" /\ ~checkRateLimit(getRateLimitKey(headers)) THEN 429
    ELSE 0

\* rateLimitStore after proxy has handled the request
StoreAfterProxy(headers, pathname, method) ==
    IF Limited(pathname, method) THEN StoreAfterCheck(getRateLimitKey(headers))
    ELSE rateLimitStore

\* proxy(request)
Proxy(headers, pathname, method) ==
    LET key == getRateLimitKey(headers)
    IN  /\ (Limited(pathname, method) /\ ~WindowOver(key))
              => rateLimitStore[key].count < RATE_LIMIT_MAX_REQUESTS + MaxOver
        /\ rateLimitStore' = StoreAfterProxy(headers, pathname, method)
        /\ passed' =
              IF ~Limited(pathname, method) THEN passed
              ELSE IF WindowOver(key) THEN MapSet(passed, key, 1)
              ELSE IF checkRateLimit(key) THEN [passed EXCEPT ![key] = @ + 1]
              ELSE passed
        /\ UNCHANGED <<now, deployVars, localVars, supaVars, bg, writes, req, served,
                       deleted, codecVars, chunkVars>>

TickMinute ==
    /\ now < MaxMinutes
    /\ now' = now + 1
    /\ UNCHANGED <<deployVars, proxyVars, localVars, supaVars, bg, writes, req, served,
                   deleted, codecVars, chunkVars>>

NextProxy ==
    \/ \E h \in RequestHeaders, p \in Pathnames, m \in Methods : Proxy(h, p, m)
    \/ TickMinute

SpecProxy == InitChunks /\ [][NextProxy]_vars

\* what the limiter does with a request of the given method that is not for
\* /api/upload: 429 once the key's window has counted
\* RATE_LIMIT_MAX_REQUESTS requests and is still open, handed on otherwise,
\* a window that is over restarts with count 1
LimiterHolds(headers, method) ==
    LET key    == getRateLimitKey(headers)
        status == ProxyStatus(headers, "/api/share", method)
        after  == StoreAfterProxy(headers, "/api/share", method)
    IN  IF WindowOver(key)
        THEN /\ status # 429
             /\ after # rateLimitStore
                   => after[key] = [count |-> 1, resetTime |-> now + RATE_LIMIT_WINDOW]
        ELSE /\ status = 429 <=> rateLimitStore[key].count >= RATE_LIMIT_MAX_REQUESTS
             /\ after[key].resetTime = rateLimitStore[key].resetTime

\* requests to /api/upload leave the counter alone and are never answered 429
UploadExempt ==
    \A h \in RequestHeaders, m \in Methods :
        /\ ProxyStatus(h, "/api/upload", m) # 429
        /\ StoreAfterProxy(h, "/api/upload", m) = rateLimitStore

\* at most RATE_LIMIT_MAX_REQUESTS requests of a key are let through in
\* one window
WindowBounded ==
    \A k \in DOMAIN passed : passed[k] <= RATE_LIMIT_MAX_REQUESTS

\* C40, as stated: for each client key, in one 60-second window that starts
\* with its first counted request, at most 100 requests that are not for
\* /api/upload are admitted and every further one is answered 429 until the
\* window is over, after which the count restarts at 1; requests to
\* /api/upload never touch the counter and are never rejected
C40_EveryRequestLimited ==
    /\ WindowBounded
    /\ UploadExempt
    /\ \A h \in RequestHeaders, m \in Methods : LimiterHolds(h, m)

\* C40, amended: the same for every request that is not a preflight; an
\* OPTIONS request is answered 200 by the proxy before the limiter and is
\* never counted
C40_RequestsLimitedButPreflight ==
    /\ WindowBounded
    /\ UploadExempt
    /\ \A h \in RequestHeaders, m \in Methods \ {"OPTIONS"} :
          /\ LimiterHolds(h, m)
          /\ StoreAfterProxy(h, "/api/share", m) # rateLimitStore
    /\ \A h \in RequestHeaders, p \in Pathnames :
          /\ ProxyStatus(h, p, "OPTIONS") = 200
          /\ StoreAfterProxy(h, p, "OPTIONS") = rateLimitStore

\* a key whose window is open, has let through RATE_LIMIT_MAX_REQUESTS
\* requests and has turned one away
C40_Witness ==
    \E k \in RateLimitKeys :
        /\ ~WindowOver(k)
        /\ rateLimitStore[k].count > RATE_LIMIT_MAX_REQUESTS
        /\ passed[k] = RATE_LIMIT_MAX_REQUESTS
        /\ now > 0

====
